---- MODULE Spec2Model ----
(***************************************************************************)
(* Model of CSM.FileSync (Hamachi Workshop Sync): the client-side planner   *)
(* and sync executor of src/src/client.py, the path and framing helpers of  *)
(* src/src/utils.py and the host handler of src/src/server.py.              *)
(*                                                                          *)
(* Strings that the code splits or joins on "/" are modelled as sequences   *)
(* of path components: the identity key "ID/rel/path" is <<"ID","rel",..>>, *)
(* a folder key "ID" is <<"ID">>, "(delete)/ID" is <<"(delete)","ID">>.     *)
(* File contents are sequences of bytes; SHA-256 is modelled as an          *)
(* injective encoding of the byte sequence (no collisions).                 *)
(***************************************************************************)
EXTENDS Integers, Sequences, FiniteSets, TLC

VARIABLES
    sock,             \* SyncClient._sock: "none" | "open"
    index,            \* SyncClient._index: ordered dict, as a sequence of metas
    folder_class,     \* SyncClient._folder_class: gid -> "assets"|"mods"|"mixed"
    folder_override,  \* SyncClient._folder_override: gid -> "assets"|"mods"
    lfs,              \* the client's filesystem under assets_path and mods_path
    hfs,              \* the host's filesystem under workshop_root
    plan,             \* App.plan: the plan last shown (App._set_plan)
    ret,              \* the client's last step and what it returned (or that it raised)
    conn,             \* the TCP connection of the client: both byte streams
    hpc,              \* the host's handler of that connection: where it stands
    hqueue,           \* the files the handler still has to send for a request
    sync,             \* the synchronize call in progress, or the last one
    clean,            \* history: nothing outside the client's synchronize changed
                      \* since its last call began on a host tree equal to the index
    srv,              \* SyncServer: the accept loop and one handler per connection
    wire,             \* one byte stream with its writer and its reader (utils.py)
    gui,              \* App: the disconnect callback of its client, its
                      \* AutoReconnectManager and its window (gui.py)
    workers           \* the threads App._sync started, each inside its own
                      \* call of synchronize on the one client (gui.py 341-373)

\* ------------------------------------------------------------------------
\* Universe of names
\* ------------------------------------------------------------------------

\* Directory names that occur directly under a root.
DirNames == {"1", "2", "x"}

\* str.isdigit() on the names of the universe.
isdigit(s) == s \in {"0", "1", "2", "9"}

\* Folder IDs the host serves (numeric directories of workshop_root).
GIDS == {d \in DirNames : isdigit(d)}

\* Relative paths of files inside a folder ID.
RelNames(d) ==
    IF d = "1" THEN {<<"a.crp">>, <<"b.dll">>}
    ELSE IF d = "2" THEN {<<"c.txt">>}
    ELSE {}

\* Path.suffix.lower() of the last component.
suffix_lower(name) ==
    LET last == name[Len(name)]
    IN  IF last = "a.crp" THEN ".crp"
        ELSE IF last = "b.dll" THEN ".dll"
        ELSE IF last = "c.txt" THEN ".txt"
        ELSE ""

CRP_EXT == ".crp"
DLL_EXT == ".dll"

\* Contents a file may hold.
Contents == {<<1>>, <<2>>}

\* A fixed total order on the names of the universe, used wherever the code
\* iterates a directory listing or a set.
NameOrder == <<"1", "2", "x", "a.crp", "b.dll", "c.txt">>

\* ------------------------------------------------------------------------
\* Filesystem trees
\* ------------------------------------------------------------------------

NoNode == [t |-> "none", data |-> <<>>, mtime |-> 0]
DirNode == [t |-> "dir", data |-> <<>>, mtime |-> 0]
FileNode(c, m) == [t |-> "file", data |-> c, mtime |-> m]

assets_path == "assets_path"
mods_path == "mods_path"
Roots == {assets_path, mods_path}

LocalPaths ==
    {<<r>> : r \in Roots}
    \cup {<<r, d>> : r \in Roots, d \in DirNames}
    \cup UNION {{<<r, d>> \o n : n \in RelNames(d)} : r \in Roots, d \in GIDS}

\* Where the environment may put a directory, and where a regular file: the
\* files of folder "1", a directory in the place of one of them, a regular
\* file with a numeric name, and a directory that is not numeric.
LocalDirPaths ==
    {p \in LocalPaths : Len(p) = 2 /\ (isdigit(p[2]) \/ p[1] = assets_path)}
    \cup {<<assets_path, "1", "a.crp">>}
LocalFilePaths == {p \in LocalPaths : Len(p) = 3 /\ p[2] = "1"} \cup {<<mods_path, "2">>}

workshop_root == "workshop_root"

HostPaths ==
    {<<workshop_root>>}
    \cup {<<workshop_root, d>> : d \in DirNames}
    \cup UNION {{<<workshop_root, d>> \o n : n \in RelNames(d)} : d \in GIDS}

Parent(p) == SubSeq(p, 1, Len(p) - 1)

\* Path.exists(), Path.is_dir(), Path.is_file()
exists(fs, p) == p \in DOMAIN fs /\ fs[p].t # "none"
is_dir(fs, p) == p \in DOMAIN fs /\ fs[p].t = "dir"
is_file(fs, p) == p \in DOMAIN fs /\ fs[p].t = "file"

\* A tree: every node that exists has a directory as its parent.
WellFormed(fs) ==
    \A p \in DOMAIN fs :
        (Len(p) > 1 /\ fs[p].t # "none") => fs[Parent(p)].t = "dir"

EmptyFs(paths, root) == [p \in paths |-> IF p = <<root>> THEN DirNode ELSE NoNode]

\* Number of nodes below the roots.
NodeCount(fs) == Cardinality({p \in DOMAIN fs : Len(p) > 1 /\ fs[p].t # "none"})

\* The sequence of the elements of S, in the order of NameOrder on `by`.
RECURSIVE OrderedBy(_, _, _)
OrderedBy(S, by(_), i) ==
    IF i > Len(NameOrder) THEN <<>>
    ELSE LET here == {x \in S : by(x) = NameOrder[i]}
         IN  (IF here = {} THEN <<>> ELSE <<CHOOSE x \in here : TRUE>>)
             \o OrderedBy(S, by, i + 1)

\* ------------------------------------------------------------------------
\* utils.py
\* ------------------------------------------------------------------------

\* sha256_of_file: an injective encoding of the bytes read.
RECURSIVE Sha256(_)
Sha256(c) == IF c = <<>> THEN 1 ELSE 3 * Sha256(SubSeq(c, 1, Len(c) - 1)) + c[Len(c)]

\* A hash of the first byte only.
sha256_of_file_first_byte(fs, p) == Sha256(SubSeq(fs[p].data, 1, 1))

sha256_of_file(fs, p) == Sha256(fs[p].data)

st_size(fs, p) == Len(fs[p].data)

\* A scan that takes every directory for a folder ID.
is_numbered_dir_any(fs, p) == is_dir(fs, p)

\* is_numbered_dir (32-34)
is_numbered_dir(fs, p) == is_dir(fs, p) /\ isdigit(p[Len(p)])

KindOf(name) ==
    LET suf == suffix_lower(name)
    IN  IF suf = CRP_EXT THEN "crp" ELSE IF suf = DLL_EXT THEN "dll" ELSE "other"

FileEntry(rel_folder, name, size, mtime, sha256, kind) ==
    [rel_folder |-> rel_folder, name |-> name, size |-> size, mtime |-> mtime,
     sha256 |-> sha256, kind |-> kind]

\* scan_workshop: one FileEntry per regular file below a numbered directory.
scan_workshop(fs) ==
    IF ~exists(fs, <<workshop_root>>) THEN <<>>
    ELSE
        LET subs == OrderedBy({p \in DOMAIN fs : Len(p) = 2 /\ is_numbered_dir(fs, p)},
                              LAMBDA p : p[2], 1)
            filesOf(sub) ==
                OrderedBy({p \in DOMAIN fs : Len(p) > 2 /\ SubSeq(p, 1, 2) = sub
                                             /\ is_file(fs, p)},
                          LAMBDA p : p[Len(p)], 1)
            entryOf(sub, fp) ==
                FileEntry(sub[2], SubSeq(fp, 3, Len(fp)), st_size(fs, fp), fs[fp].mtime,
                          sha256_of_file(fs, fp), KindOf(fp))
            entriesOf(sub) == [i \in 1..Len(filesOf(sub)) |-> entryOf(sub, filesOf(sub)[i])]
            RECURSIVE walk(_)
            walk(i) == IF i > Len(subs) THEN <<>> ELSE entriesOf(subs[i]) \o walk(i + 1)
        IN  walk(1)

\* build_client_target: <base>/<ID>/<relative path>
build_client_target(entry, dest_base) ==
    LET base == IF dest_base = "assets" THEN assets_path ELSE mods_path
    IN  <<base, entry.rel_folder>> \o entry.name

\* ------------------------------------------------------------------------
\* protocol.py
\* ------------------------------------------------------------------------

\* The identity key of an entry: rel_folder + "/" + name.
KeyOf(e) == <<e.rel_folder>> \o e.name

\* build_index: the INDEX message; "entries" is a dict keyed by KeyOf, kept as
\* the sequence of its values in insertion order.
build_index(fs) == [action |-> "INDEX", entries |-> scan_workshop(fs)]

\* ------------------------------------------------------------------------
\* client.py: classification and targets
\* ------------------------------------------------------------------------

\* The distinct elements of a sequence, in order of first appearance.
RECURSIVE Distinct(_)
Distinct(s) ==
    IF s = <<>> THEN <<>>
    ELSE LET front == Distinct(SubSeq(s, 1, Len(s) - 1))
             x == s[Len(s)]
         IN  IF \E i \in 1..Len(front) : front[i] = x THEN front ELSE Append(front, x)

Range(s) == {s[i] : i \in 1..Len(s)}

\* _group_index: the folder IDs in order of first appearance (the dict's
\* keys), and the entries of one folder ID in index order (its value).
group_ids(idx) == Distinct([i \in 1..Len(idx) |-> idx[i].rel_folder])
group_files(idx, gid) == SelectSeq(idx, LAMBDA m : m.rel_folder = gid)

\* classify_folders with the "mixed" case forgotten: a .dll decides alone.
classify_folders_no_mixed(idx) ==
    [gid \in Range(group_ids(idx)) |->
        LET files == group_files(idx, gid)
        IN  IF \E i \in 1..Len(files) : files[i].kind = "dll" THEN "mods" ELSE "assets"]

\* _classify_folders: the new value of _folder_class.
classify_folders(idx) ==
    [gid \in Range(group_ids(idx)) |->
        LET files == group_files(idx, gid)
            has_crp == \E i \in 1..Len(files) : files[i].kind = "crp"
            has_dll == \E i \in 1..Len(files) : files[i].kind = "dll"
        IN  IF has_crp /\ has_dll THEN "mixed"
            ELSE IF has_crp THEN "assets"
            ELSE IF has_dll THEN "mods"
            ELSE "assets"]

\* get_folder_target
get_folder_target(ov, cls, gid) ==
    IF gid \in DOMAIN ov THEN ov[gid]
    ELSE LET c == IF gid \in DOMAIN cls THEN cls[gid] ELSE "assets"
         IN  IF c = "mixed" THEN "assets" ELSE c

\* set_folder_override without its check of dest.
set_folder_override_unchecked(ov, gid, dest) ==
    [g \in DOMAIN ov \cup {gid} |-> IF g = gid THEN dest ELSE ov[g]]

\* set_folder_override: the new value of _folder_override.
set_folder_override(ov, gid, dest) ==
    IF dest \in {"assets", "mods"}
    THEN [g \in DOMAIN ov \cup {gid} |-> IF g = gid THEN dest ELSE ov[g]]
    ELSE ov

\* mixed_folders without its test of the class: every folder ID.
mixed_folders_every(cls) == OrderedBy(DOMAIN cls, LAMBDA g : g, 1)

\* mixed_folders
mixed_folders(cls) ==
    SelectSeq(OrderedBy(DOMAIN cls, LAMBDA g : g, 1), LAMBDA g : cls[g] = "mixed")

\* ------------------------------------------------------------------------
\* client.py: build_plan
\* ------------------------------------------------------------------------

PlanItem(key, entry, target, action, level) ==
    [key |-> key, entry |-> entry, target |-> target, action |-> action, level |-> level]

\* plan_file_action deciding SAME by size and time instead of by content.
plan_file_action_by_stat(fs, e, dest_base) ==
    LET t == build_client_target(e, dest_base)
    IN  IF exists(fs, t)
        THEN IF ~is_file(fs, t) THEN "RAISE"
             ELSE IF st_size(fs, t) = e.size /\ fs[t].mtime = e.mtime THEN "SAME" ELSE "UPDATE"
        ELSE "NEW"

\* The action of one file in build_plan (lines 139-144); "RAISE" when
\* sha256_of_file is applied to a directory.
plan_file_action(fs, e, dest_base) ==
    LET t == build_client_target(e, dest_base)
    IN  IF exists(fs, t)
        THEN IF ~is_file(fs, t) THEN "RAISE"
             ELSE IF sha256_of_file(fs, t) = e.sha256 THEN "SAME" ELSE "UPDATE"
        ELSE "NEW"

\* folder_action with NEW taking precedence over UPDATE.
folder_action_new_first(statuses) ==
    IF statuses = {"SAME"} THEN "SAME"
    ELSE IF "NEW" \in statuses THEN "NEW"
    ELSE "UPDATE"

\* The folder action aggregated from the set of file actions (lines 123-128).
folder_action(statuses) ==
    IF statuses = {"SAME"} THEN "SAME"
    ELSE IF "UPDATE" \in statuses THEN "UPDATE"
    ELSE "NEW"

capitalize(dest_base) == IF dest_base = "assets" THEN "<Assets>" ELSE "<Mods>"

FolderEntry(gid) == FileEntry(gid, <<"(folder)">>, 0, 0, "", "other")

\* plan_group with the folder item appended after the files of the folder.
plan_group_files_first(fs, idx, ov, cls, gid) ==
    LET dest_base == get_folder_target(ov, cls, gid)
        files == group_files(idx, gid)
        statuses == {plan_file_action(fs, files[i], dest_base) : i \in 1..Len(files)}
    IN  [i \in 1..Len(files) |->
            PlanItem(<<gid>> \o files[i].name, files[i],
                     build_client_target(files[i], dest_base),
                     plan_file_action(fs, files[i], dest_base), "file")]
        \o <<PlanItem(<<gid>>, FolderEntry(gid), <<capitalize(dest_base), gid>>,
                      folder_action(statuses), "folder")>>

\* The items of one folder ID of the index: the folder item, then its files.
plan_group(fs, idx, ov, cls, gid) ==
    LET dest_base == get_folder_target(ov, cls, gid)
        files == group_files(idx, gid)
        statuses == {plan_file_action(fs, files[i], dest_base) : i \in 1..Len(files)}
    IN  <<PlanItem(<<gid>>, FolderEntry(gid), <<capitalize(dest_base), gid>>,
                   folder_action(statuses), "folder")>>
        \o [i \in 1..Len(files) |->
               PlanItem(<<gid>> \o files[i].name, files[i],
                        build_client_target(files[i], dest_base),
                        plan_file_action(fs, files[i], dest_base), "file")]

\* local_ids without the test that the name is numeric.
local_ids_any_name(fs) ==
    {p[2] : p \in {q \in DOMAIN fs : Len(q) = 2 /\ exists(fs, <<q[1]>>) /\ is_dir(fs, q)}}

\* local_ids: the numeric directories directly under either root (154-160).
local_ids(fs) ==
    {p[2] : p \in {q \in DOMAIN fs : Len(q) = 2 /\ exists(fs, <<q[1]>>)
                                     /\ is_dir(fs, q) /\ isdigit(q[2])}}

\* The regular files below <base>/<gid>, in listing order (d.rglob("*")).
rglob_files(fs, base, gid) ==
    OrderedBy({p \in DOMAIN fs : Len(p) > 2 /\ p[1] = base /\ p[2] = gid /\ is_file(fs, p)},
              LAMBDA p : p[Len(p)], 1)

\* The DELETE items of one missing folder ID (lines 164-185).
plan_delete(fs, gid) ==
    LET itemsUnder(base) ==
            IF ~exists(fs, <<base, gid>>) THEN <<>>
            ELSE LET fsq == rglob_files(fs, base, gid)
                 IN  [i \in 1..Len(fsq) |->
                        LET f == fsq[i]
                            rel == SubSeq(f, 3, Len(f))
                        IN  PlanItem(<<"(delete)", gid>> \o rel,
                                     FileEntry(gid, rel, st_size(fs, f), fs[f].mtime, "",
                                               KindOf(f)),
                                     f, "DELETE", "file")]
    IN  <<PlanItem(<<"(delete)", gid>>, FolderEntry(gid), <<assets_path, gid>>,
                   "DELETE", "folder")>>
        \o itemsUnder(assets_path) \o itemsUnder(mods_path)

RECURSIVE Concat(_)
Concat(ss) == IF ss = <<>> THEN <<>> ELSE Head(ss) \o Concat(Tail(ss))

\* build_plan: the returned list, or raised when hashing a target fails.
build_plan(fs, idx, ov, cls) ==
    LET groups == group_ids(idx)
        synced == Concat([i \in 1..Len(groups) |-> plan_group(fs, idx, ov, cls, groups[i])])
        missing_ids == SelectSeq(OrderedBy(local_ids(fs), LAMBDA g : g, 1),
                                 LAMBDA g : g \notin Range(groups))
        deletes == Concat([i \in 1..Len(missing_ids) |-> plan_delete(fs, missing_ids[i])])
    IN  IF \E i \in 1..Len(synced) : synced[i].action = "RAISE"
        THEN [raised |-> TRUE, value |-> <<>>]
        ELSE [raised |-> FALSE, value |-> synced \o deletes]

\* ------------------------------------------------------------------------
\* The connection and the wire (utils.py 109-151)
\* ------------------------------------------------------------------------

\* What travels host -> client: a framed JSON message (send_json), whole or cut
\* short by a connection that ended, and the bytes of a file behind their
\* 8-byte size (send_file): hdr tells whether the size arrived whole, data are
\* the bytes that arrived.
JsonFrame(m) == [k |-> "json", msg |-> m, whole |-> TRUE, hdr |-> TRUE, size |-> 0, data |-> <<>>]
FileFrame(size, data) ==
    [k |-> "file", msg |-> [action |-> ""], whole |-> TRUE, hdr |-> TRUE, size |-> size,
     data |-> data]

\* A connection just accepted: the INDEX was read by connect(), nothing else
\* is in flight. up: neither side has closed and the network holds.
NewConn == [s2c |-> <<>>, c2s |-> <<>>, up |-> TRUE]

\* The statistics synchronize starts from (client.py 252-263).
stats0(selected_total) ==
    [selected_total |-> selected_total, to_transfer |-> 0, transferred_files |-> 0,
     bytes |-> 0, new_count |-> 0, update_count |-> 0, same_count |-> 0,
     assets_files |-> 0, mods_files |-> 0]

\* No synchronize call yet. keys, sent, got and notified are history of the
\* call: the identity keys it selected, the REQUEST_FILES messages it sent, the
\* files it received and the calls of on_disconnect it made; again tells that
\* it repeats the selection of a call that ended with DONE, nothing changed;
\* calls counts the calls made; progress holds the arguments of the calls of
\* progress_cb; torn holds the keys of the files that the call before, the
\* last one on a connection, left shorter than the size sent ahead of them.
NoSync ==
    [pc |-> "idle", outcome |-> "none", keys |-> <<>>, dest_by_key |-> <<>>,
     stats |-> stats0(0), sent |-> <<>>, got |-> <<>>, notified |-> 0, again |-> FALSE,
     calls |-> 0, wanted |-> {}, progress |-> <<>>, torn |-> {}]

\* The keys of the files a call wrote with fewer bytes than the 8-byte size
\* announced (recv_file 146-150: the loop ends when the stream does), and
\* those a call inherits that was made without a connection.
TornBy(sy) ==
    {sy.got[i].key : i \in {j \in 1..Len(sy.got) : Len(sy.got[j].data) < sy.got[j].size}}
    \cup (IF sy.outcome = "notconnected" THEN sy.torn ELSE {})

\* ------------------------------------------------------------------------
\* Inputs: host content roots and changes of the client's filesystem
\* ------------------------------------------------------------------------

\* Largest number of nodes below the client's two roots.
MaxLocalNodes == 3

\* What one file on the host may be: content and modification time.
HostFileChoices == {FileNode(<<1>>, 1), FileNode(<<1>>, 2), FileNode(<<2>>, 2)}

\* Largest number of files below the host's root.
MaxHostFiles == 2

HostKeys == {p \in HostPaths : Len(p) > 2}

\* The host tree that holds exactly the files `files` gives (NoNode: absent),
\* each below its numbered directory, beside a directory that is not numeric.
HostFsOf(files) ==
    [p \in HostPaths |->
        IF Len(p) = 1 THEN DirNode
        ELSE IF Len(p) = 2
             THEN IF ~isdigit(p[2]) \/ \E k \in HostKeys : Parent(k) = p /\ files[k].t = "file"
                  THEN DirNode ELSE NoNode
             ELSE files[p]]

HostStates ==
    {HostFsOf(f) : f \in {g \in [HostKeys -> HostFileChoices \cup {NoNode}] :
                             Cardinality({k \in HostKeys : g[k].t = "file"}) <= MaxHostFiles}}

\* The host trees the planner is run against: every file holds <<1>>, at
\* either time, while a local file holds <<1>> or <<2>> at time 1. So a local
\* file differs from the entry by content alone, or by time alone.
PlanHostStates ==
    {h \in HostStates : \A p \in HostKeys : h[p].t = "file" => h[p].data = <<1>>}

NoOverride == [g \in {} |-> "assets"]

\* App.__init__ (gui.py 252-259): the client with its default on_disconnect,
\* a callback scheduled that is to replace it, and an AutoReconnectManager
\* that is not running (128-131).
NewApp ==
    [on_disconnect |-> "default", after |-> "scheduled",
     reconnector |-> [running |-> FALSE, stop |-> FALSE, threads |-> 0],
     window |-> "open"]

\* The server and the byte stream where a specification does not use them.
NoServer == [accepting |-> FALSE, h |-> <<>>]
NoWire == [pc |-> "none"]

\* No thread of App._sync where a specification runs synchronize by itself.
NoWorkers == <<>>

auxvars == <<srv, wire, gui, workers>>

netvars == <<conn, hpc, hqueue, sync, clean, auxvars>>

vars == <<sock, index, folder_class, folder_override, lfs, hfs, plan, ret, netvars>>

Returned(op, raised, value) == [op |-> op, raised |-> raised, value |-> value]

\* A call without a result, or a change made by the environment.
Void == Returned("void", FALSE, <<>>)

\* A directory is created below a root (or where a file is expected).
LocalMkdir(p) ==
    /\ UNCHANGED auxvars
    /\ Len(p) > 1 /\ ~exists(lfs, p) /\ is_dir(lfs, Parent(p))
    /\ NodeCount(lfs) < MaxLocalNodes
    /\ lfs' = [lfs EXCEPT ![p] = DirNode]
    /\ ret' = Void
    /\ clean' = FALSE
    /\ UNCHANGED <<sock, index, folder_class, folder_override, hfs, plan, conn, hpc, hqueue, sync>>

\* A file is written below a root by something other than the client.
LocalWrite(p, c) ==
    /\ UNCHANGED auxvars
    /\ Len(p) > 1 /\ ~is_dir(lfs, p) /\ is_dir(lfs, Parent(p))
    /\ lfs[p] # FileNode(c, 1)
    /\ exists(lfs, p) \/ NodeCount(lfs) < MaxLocalNodes
    /\ lfs' = [lfs EXCEPT ![p] = FileNode(c, 1)]
    /\ ret' = Void
    /\ clean' = FALSE
    /\ UNCHANGED <<sock, index, folder_class, folder_override, hfs, plan, conn, hpc, hqueue, sync>>

\* A file or an empty directory (a root too) is removed.
LocalRemove(p) ==
    /\ UNCHANGED auxvars
    /\ exists(lfs, p)
    /\ \A q \in DOMAIN lfs : (Len(q) = Len(p) + 1 /\ Parent(q) = p) => ~exists(lfs, q)
    /\ lfs' = [lfs EXCEPT ![p] = NoNode]
    /\ ret' = Void
    /\ clean' = FALSE
    /\ UNCHANGED <<sock, index, folder_class, folder_override, hfs, plan, conn, hpc, hqueue, sync>>

\* A root that was removed is created again.
LocalMkroot(r) ==
    /\ UNCHANGED auxvars
    /\ ~exists(lfs, <<r>>)
    /\ lfs' = [lfs EXCEPT ![<<r>>] = DirNode]
    /\ ret' = Void
    /\ clean' = FALSE
    /\ UNCHANGED <<sock, index, folder_class, folder_override, hfs, plan, conn, hpc, hqueue, sync>>

\* ------------------------------------------------------------------------
\* The client's calls (client.py 36-191)
\* ------------------------------------------------------------------------

\* connect() that returns True: close(), then the host accepted and its INDEX
\* (built from the host's tree h at accept time) arrived and was classified.
ConnectOk(h) ==
    /\ UNCHANGED auxvars
    /\ hfs' = h
    /\ sock' = "open"
    /\ index' = build_index(h).entries
    /\ folder_class' = classify_folders(index')
    /\ ret' = Returned("connect", FALSE, TRUE)
    /\ conn' = NewConn
    /\ hpc' = "recv"
    /\ hqueue' = <<>>
    /\ clean' = FALSE
    /\ UNCHANGED <<folder_override, lfs, plan, sync>>

\* connect() that returns False: close(), then no connection or no INDEX.
ConnectFail ==
    /\ UNCHANGED auxvars
    /\ sock' = "none"
    /\ ret' = Returned("connect", FALSE, FALSE)
    /\ conn' = [conn EXCEPT !.up = FALSE]
    /\ UNCHANGED <<index, folder_class, folder_override, lfs, hfs, plan, hpc, hqueue, sync, clean>>

\* close()
Close ==
    /\ UNCHANGED auxvars
    /\ sock' = "none"
    /\ ret' = Void
    /\ conn' = [conn EXCEPT !.up = FALSE]
    /\ UNCHANGED <<index, folder_class, folder_override, lfs, hfs, plan, hpc, hqueue, sync, clean>>

SetFolderOverride(gid, dest) ==
    /\ UNCHANGED auxvars
    /\ folder_override' = set_folder_override(folder_override, gid, dest)
    /\ ret' = Void
    /\ clean' = FALSE
    /\ UNCHANGED <<sock, index, folder_class, lfs, hfs, plan, conn, hpc, hqueue, sync>>

\* get_folder_target(gid)
GetFolderTarget(gid) ==
    /\ ret' = Returned("get_folder_target", FALSE,
                       <<gid, get_folder_target(folder_override, folder_class, gid)>>)
    /\ UNCHANGED <<sock, index, folder_class, folder_override, lfs, hfs, plan, netvars>>

\* mixed_folders(), called on the client as it is.
MixedFolders ==
    /\ ret' = Returned("mixed_folders", FALSE, mixed_folders(folder_class))
    /\ UNCHANGED <<sock, index, folder_class, folder_override, lfs, hfs, plan, netvars>>

\* build_plan(), called on the client as it is.
BuildPlan ==
    /\ LET r == build_plan(lfs, index, folder_override, folder_class)
       IN  ret' = Returned("build_plan", r.raised, r.value)
    /\ UNCHANGED <<sock, index, folder_class, folder_override, lfs, hfs, plan, netvars>>

InitClient ==
    /\ sock = "none"
    /\ index = <<>>
    /\ folder_class = NoOverride
    /\ folder_override = NoOverride
    /\ lfs = [p \in LocalPaths |-> IF Len(p) = 1 THEN DirNode ELSE NoNode]
    /\ hfs = EmptyFs(HostPaths, workshop_root)
    /\ plan = <<>>
    /\ ret = Void
    /\ conn = [NewConn EXCEPT !.up = FALSE]
    /\ hpc = "none"
    /\ hqueue = <<>>
    /\ sync = NoSync
    /\ clean = FALSE
    /\ srv = NoServer
    /\ wire = NoWire
    /\ gui = NewApp
    /\ workers = NoWorkers

Dests == {"assets", "mods", "mixed"}

\* The session: connecting, closing and overriding, on any host tree.
NextClient ==
    \/ \E h \in HostStates : ConnectOk(h)
    \/ ConnectFail
    \/ Close
    \/ \E gid \in DirNames, dest \in Dests : SetFolderOverride(gid, dest)
    \/ \E gid \in DirNames : GetFolderTarget(gid)
    \/ MixedFolders

SpecClient == InitClient /\ [][NextClient]_vars

\* The planner: build_plan on any index, overrides and local tree. The inputs
\* are drawn first (the local tree, then the host's index), then the overrides
\* are set and build_plan is called.
NextPlan ==
    \/ sock = "none" /\ \E p \in LocalDirPaths : LocalMkdir(p)
    \/ sock = "none" /\ \E p \in LocalFilePaths, c \in Contents : LocalWrite(p, c)
    \/ sock = "none" /\ \E p \in LocalPaths : LocalRemove(p)
    \/ sock = "none" /\ \E r \in Roots : LocalMkroot(r)
    \/ sock = "none" /\ \E h \in PlanHostStates : ConnectOk(h)
    \/ \E gid \in GIDS, dest \in Dests : SetFolderOverride(gid, dest)
    \/ BuildPlan

SpecPlan == InitClient /\ [][NextPlan]_vars

\* ------------------------------------------------------------------------
\* client.py: synchronize (194-324), utils.py: recv_file
\* ------------------------------------------------------------------------

\* The keys a caller may select: folder keys, file keys, keys of the
\* (delete)/ namespace, in the order a set of them is iterated.
KeyOrder == <<<<"1">>, <<"1", "a.crp">>, <<"2", "c.txt">>, <<"(delete)", "2">>>>
SelKeys == Range(KeyOrder)
SetOrder(S) == SelectSeq(KeyOrder, LAMBDA k : k \in S)

\* self._index.get(key) and self._index[key]
index_has(idx, key) == \E i \in 1..Len(idx) : KeyOf(idx[i]) = key
index_get(idx, key) == idx[CHOOSE i \in 1..Len(idx) : KeyOf(idx[i]) = key]

\* The pairs as they are, no key dropped.
dedupe_none(out) == out

\* The first pair of each identity key (client.py 229-237).
RECURSIVE dedupe(_)
dedupe(out) ==
    IF out = <<>> THEN <<>>
    ELSE LET front == dedupe(SubSeq(out, 1, Len(out) - 1))
             x == out[Len(out)]
         IN  IF \E i \in 1..Len(front) : KeyOf(front[i][2]) = KeyOf(x[2])
             THEN front ELSE Append(front, x)

\* _expand_selection_to_file_entries: pairs <<dest_base, entry>>.
expand_selection(idx, ov, cls, sel) ==
    LET folder_ids == SetOrder({k \in sel : Len(k) = 1})
        ofFolder(gid) ==
            LET files == group_files(idx, gid)
            IN  [j \in 1..Len(files) |-> <<get_folder_target(ov, cls, gid), files[j]>>]
        file_keys == SetOrder({k \in sel : Len(k) > 1 /\ k[1] # "(delete)"})
        ofFile(k) ==
            IF index_has(idx, k)
            THEN <<<<get_folder_target(ov, cls, k[1]), index_get(idx, k)>>>>
            ELSE <<>>
    IN  dedupe(Concat([i \in 1..Len(folder_ids) |-> ofFolder(folder_ids[i][1])])
               \o Concat([i \in 1..Len(file_keys) |-> ofFile(file_keys[i])]))

\* _classify_file_action that takes whatever exists at the target for SAME.
classify_file_action_by_exists(fs, fe, dest_base) ==
    LET t == build_client_target(fe, dest_base)
    IN  IF exists(fs, t)
        THEN IF ~is_file(fs, t) THEN "RAISE" ELSE "SAME"
        ELSE "NEW"

\* _classify_file_action; "RAISE" when sha256_of_file is applied to a directory.
classify_file_action(fs, fe, dest_base) ==
    LET t == build_client_target(fe, dest_base)
    IN  IF exists(fs, t)
        THEN IF ~is_file(fs, t) THEN "RAISE"
             ELSE IF sha256_of_file(fs, t) = fe.sha256 THEN "SAME" ELSE "UPDATE"
        ELSE "NEW"

Count(seq, x) == Cardinality({i \in 1..Len(seq) : seq[i] = x})

\* sync_decide with every selected file counted as one to transfer.
sync_decide_counts_same(fs, idx, ov, cls, sel) ==
    LET entries == expand_selection(idx, ov, cls, sel)
        acts == [i \in 1..Len(entries) |->
                    classify_file_action(fs, entries[i][2], entries[i][1])]
        wanted == SelectSeq([i \in 1..Len(entries) |-> i], LAMBDA i : acts[i] # "SAME")
        request_files == [j \in 1..Len(wanted) |-> index_get(idx, KeyOf(entries[wanted[j]][2]))]
    IN  [raised |-> \E i \in 1..Len(entries) : acts[i] = "RAISE",
         keys |-> [i \in 1..Len(entries) |-> KeyOf(entries[i][2])],
         dest_by_key |-> [k \in {KeyOf(entries[i][2]) : i \in 1..Len(entries)} |->
                            entries[CHOOSE i \in 1..Len(entries) : KeyOf(entries[i][2]) = k][1]],
         request_files |-> request_files,
         stats |-> [stats0(Len(entries)) EXCEPT
                        !.same_count = Count(acts, "SAME"),
                        !.new_count = Count(acts, "NEW"),
                        !.update_count = Count(acts, "UPDATE"),
                        !.to_transfer = Len(entries)]]

\* What synchronize decides before it talks to the host (client.py 250-284).
sync_decide(fs, idx, ov, cls, sel) ==
    LET entries == expand_selection(idx, ov, cls, sel)
        acts == [i \in 1..Len(entries) |->
                    classify_file_action(fs, entries[i][2], entries[i][1])]
        wanted == SelectSeq([i \in 1..Len(entries) |-> i], LAMBDA i : acts[i] # "SAME")
        request_files == [j \in 1..Len(wanted) |-> index_get(idx, KeyOf(entries[wanted[j]][2]))]
    IN  [raised |-> \E i \in 1..Len(entries) : acts[i] = "RAISE",
         keys |-> [i \in 1..Len(entries) |-> KeyOf(entries[i][2])],
         dest_by_key |-> [k \in {KeyOf(entries[i][2]) : i \in 1..Len(entries)} |->
                            entries[CHOOSE i \in 1..Len(entries) : KeyOf(entries[i][2]) = k][1]],
         request_files |-> request_files,
         stats |-> [stats0(Len(entries)) EXCEPT
                        !.same_count = Count(acts, "SAME"),
                        !.new_count = Count(acts, "NEW"),
                        !.update_count = Count(acts, "UPDATE"),
                        !.to_transfer = Len(request_files)]]

\* dest.parent.mkdir(parents=True, exist_ok=True): fails on a regular file
\* in the way.
mkdir_parents(fs, dest) ==
    LET anc == {SubSeq(dest, 1, i) : i \in 1..(Len(dest) - 1)}
    IN  IF \E a \in anc : is_file(fs, a) THEN [err |-> TRUE, fs |-> fs]
        ELSE [err |-> FALSE, fs |-> [q \in DOMAIN fs |-> IF q \in anc THEN DirNode ELSE fs[q]]]

\* What a call returns: None, or an integer.
NoneValue == [none |-> TRUE, n |-> 0]
IntValue(n) == [none |-> FALSE, n |-> n]

\* recv_file writing one byte less than it received.
recv_file_short(fs, frame, dest) ==
    LET mk == mkdir_parents(fs, dest)
        n == IF Len(frame.data) > 0 THEN Len(frame.data) - 1 ELSE 0
    IN  IF ~frame.hdr \/ mk.err \/ is_dir(fs, dest)
        THEN [err |-> TRUE, fs |-> fs, value |-> NoneValue]
        ELSE [err |-> FALSE,
              fs |-> [mk.fs EXCEPT ![dest] = FileNode(SubSeq(frame.data, 1, n), 1)],
              value |-> NoneValue]

\* recv_file raising when fewer bytes arrived than the size declared.
recv_file_strict(fs, frame, dest) ==
    LET mk == mkdir_parents(fs, dest)
    IN  IF ~frame.hdr \/ mk.err THEN [err |-> TRUE, fs |-> fs, value |-> NoneValue]
        ELSE IF is_dir(fs, dest) THEN [err |-> TRUE, fs |-> mk.fs, value |-> NoneValue]
        ELSE [err |-> Len(frame.data) < frame.size,
              fs |-> [mk.fs EXCEPT ![dest] = FileNode(frame.data, 1)],
              value |-> NoneValue]

\* recv_file: raises when the 8-byte size is incomplete (struct.unpack), when
\* mkdir fails or when dest cannot be opened for writing; else dest holds the
\* bytes that arrived, all `size` of them or fewer when the stream ended.
\* `written` is logged (151); the function has no return statement.
recv_file(fs, frame, dest) ==
    LET mk == mkdir_parents(fs, dest)
    IN  IF ~frame.hdr THEN [err |-> TRUE, fs |-> fs, value |-> NoneValue]
        ELSE IF mk.err THEN [err |-> TRUE, fs |-> fs, value |-> NoneValue]
        ELSE IF is_dir(fs, dest) THEN [err |-> TRUE, fs |-> mk.fs, value |-> NoneValue]
        ELSE [err |-> FALSE, fs |-> [mk.fs EXCEPT ![dest] = FileNode(frame.data, 1)],
              value |-> NoneValue]

\* What synchronize returns when it is not connected (client.py 246-248).
NotConnectedStats == [files |-> 0, bytes |-> 0, seconds |-> 0]

\* The connection after close(): what was in flight is never read.
Closed == [s2c |-> <<>>, c2s |-> <<>>, up |-> FALSE]

\* if not request_files: return stats (289-290)
nothing_to_do_never(request_files) == FALSE
nothing_to_do(request_files) == request_files = <<>>

\* progress_cb called with the count before the file at hand.
progress_cb_before(sy) ==
    [sy EXCEPT !.progress = Append(@, <<sy.stats.transferred_files - 1, sy.stats.to_transfer>>)]

\* progress_cb(int(stats["transferred_files"]), int(stats["to_transfer"])) (314)
progress_cb(sy) ==
    [sy EXCEPT !.progress = Append(@, <<sy.stats.transferred_files, sy.stats.to_transfer>>)]

\* self.on_disconnect(...) not called.
on_disconnect_skipped(sy) == sy

\* self.on_disconnect("Sync unterbrochen ...") (321): one more call counted.
on_disconnect(sy) == [sy EXCEPT !.notified = @ + 1]

\* The except block that also removes what the call has received.
Lost_rollback(sy, fs) ==
    /\ sock' = "none"
    /\ conn' = Closed
    /\ sync' = [on_disconnect(sy) EXCEPT !.pc = "idle", !.outcome = "lost"]
    /\ ret' = Returned("synchronize", FALSE, sy.stats)
    /\ lfs' = [q \in DOMAIN fs |->
                 IF \E i \in 1..Len(sy.got) : sy.got[i].target = q THEN NoNode ELSE fs[q]]

\* The except block without its self.close(): the socket stays.
Lost_keeps_socket(sy, fs) ==
    /\ UNCHANGED <<sock, conn>>
    /\ sync' = [on_disconnect(sy) EXCEPT !.pc = "idle", !.outcome = "lost"]
    /\ ret' = Returned("synchronize", FALSE, sy.stats)
    /\ lfs' = fs

\* The except block of synchronize (318-321), then the return: close(), one
\* call of on_disconnect, the statistics so far. The files are left as they
\* are.
Lost(sy, fs) ==
    /\ sock' = "none"
    /\ conn' = Closed
    /\ sync' = [on_disconnect(sy) EXCEPT !.pc = "idle", !.outcome = "lost"]
    /\ ret' = Returned("synchronize", FALSE, sy.stats)
    /\ lfs' = fs

\* synchronize, up to its first wait for the host: the decisions, then the
\* return when nothing is to be requested, else send_json(REQUEST_FILES),
\* which fails or is lost when the connection is down.
SyncStart(sel) ==
    /\ UNCHANGED auxvars
    /\ sync.pc = "idle"
    /\ clean' = (scan_workshop(hfs) = index)
    /\ UNCHANGED <<index, folder_class, folder_override, hfs, plan, hpc, hqueue>>
    /\ IF sock = "none"
       THEN /\ ret' = Returned("synchronize", FALSE, NotConnectedStats)
            /\ sync' = [NoSync EXCEPT !.outcome = "notconnected", !.calls = sync.calls + 1,
                                      !.torn = TornBy(sync)]
            /\ UNCHANGED <<sock, conn, lfs>>
       ELSE LET d == sync_decide(lfs, index, folder_override, folder_class, sel)
                sy == [NoSync EXCEPT
                         !.keys = d.keys, !.dest_by_key = d.dest_by_key, !.stats = d.stats,
                         !.again = (sync.outcome = "done" /\ clean /\ sync.keys = d.keys),
                         !.wanted = {KeyOf(d.request_files[i]) : i \in 1..Len(d.request_files)},
                         !.calls = sync.calls + 1, !.torn = TornBy(sync)]
                msg == [action |-> "REQUEST_FILES", files |-> d.request_files]
            IN  IF d.raised
                THEN /\ ret' = Returned("synchronize", TRUE, <<>>)
                     /\ sync' = [sy EXCEPT !.outcome = "raised", !.stats = stats0(Len(d.keys))]
                     /\ UNCHANGED <<sock, conn, lfs>>
                ELSE IF nothing_to_do(d.request_files)
                THEN /\ ret' = Returned("synchronize", FALSE, d.stats)
                     /\ sync' = [sy EXCEPT !.outcome = "nothing"]
                     /\ UNCHANGED <<sock, conn, lfs>>
                ELSE IF conn.up
                THEN /\ conn' = [conn EXCEPT !.c2s = Append(@, msg)]
                     /\ sync' = [sy EXCEPT !.pc = "recv", !.outcome = "running",
                                           !.sent = <<msg>>]
                     /\ ret' = Returned("sync_send", FALSE, <<>>)
                     /\ UNCHANGED <<sock, lfs>>
                ELSE \/ Lost(sy, lfs)
                     \/ /\ sync' = [sy EXCEPT !.pc = "recv", !.outcome = "running",
                                              !.sent = <<msg>>]
                        /\ ret' = Returned("sync_send", FALSE, <<>>)
                        /\ UNCHANGED <<sock, conn, lfs>>

\* The entry of the file that comes next in the request, whatever the header
\* names.
header_entry_by_position(idx, sy, key) ==
    LET files == sy.sent[1].files
        n == Len(sy.got) + 1
    IN  IF sy.sent # <<>> /\ n <= Len(files) THEN files[n] ELSE index_get(idx, key)

\* meta = self._index[key]; entry = FileEntry(**meta): the entry of the key
\* the FILE header names (300-302).
header_entry(idx, sy, key) == index_get(idx, key)

\* The destination looked up again when the file arrives.
dest_base_of_now(sy, ov, cls, key) == get_folder_target(ov, cls, key[1])

\* dest_base = dest_by_key.get(key, self.get_folder_target(rel_folder)) (303):
\* what the call resolved before its request, and for a key it did not
\* resolve the folder's target as it is now.
dest_base_of(sy, ov, cls, key) ==
    IF key \in DOMAIN sy.dest_by_key THEN sy.dest_by_key[key]
    ELSE get_folder_target(ov, cls, key[1])

\* One round of the loop of synchronize (293-317): recv_json, then for a FILE
\* message recv_file and the counters, for DONE the return.
SyncRecv ==
    /\ UNCHANGED auxvars
    /\ sync.pc = "recv"
    /\ UNCHANGED <<index, folder_class, folder_override, hfs, plan, hpc, hqueue, clean>>
    /\ IF conn.s2c = <<>>
       THEN \* recv_json on a stream that ended: ConnectionError
            /\ ~conn.up
            /\ Lost(sync, lfs)
       ELSE LET f == Head(conn.s2c)
                rest == Tail(conn.s2c)
                msg == f.msg
            IN  /\ f.k = "json"
                /\ IF ~f.whole
                   THEN \* a length or payload cut short: struct.error, JSONDecodeError
                        Lost(sync, lfs)
                   ELSE IF msg.action = "FILE"
                   THEN IF ~({"rel_folder", "name", "size"} \subseteq DOMAIN msg)
                           \/ ~index_has(index, <<msg.rel_folder>> \o msg.name)
                        THEN \* KeyError
                             Lost(sync, lfs)
                        ELSE IF rest = <<>>
                        THEN \* recv_file on a stream that ended: struct.error
                             /\ ~conn.up
                             /\ Lost(sync, lfs)
                        ELSE LET key == <<msg.rel_folder>> \o msg.name
                                 entry == header_entry(index, sync, key)
                                 dest_base == dest_base_of(sync, folder_override,
                                                           folder_class, key)
                                 target == build_client_target(entry, dest_base)
                                 r == recv_file(lfs, Head(rest), target)
                                 after == [conn EXCEPT !.s2c = Tail(rest)]
                             IN  /\ Head(rest).k = "file"
                                 /\ IF r.err
                                    THEN Lost(sync, r.fs)
                                    ELSE /\ lfs' = r.fs
                                         /\ sync' = progress_cb([sync EXCEPT
                                               !.stats.assets_files =
                                                   IF dest_base = "assets" THEN @ + 1 ELSE @,
                                               !.stats.mods_files =
                                                   IF dest_base = "assets" THEN @ ELSE @ + 1,
                                               !.stats.bytes = @ + msg.size,
                                               !.stats.transferred_files = @ + 1,
                                               !.got = Append(@, [key |-> key, target |-> target,
                                                                  announced |-> msg.size,
                                                                  size |-> Head(rest).size,
                                                                  data |-> Head(rest).data,
                                                                  returned |-> r.value])])
                                         /\ conn' = after
                                         /\ ret' = Returned("sync_recv", FALSE, <<>>)
                                         /\ UNCHANGED sock
                   ELSE IF msg.action = "DONE"
                   THEN /\ sync' = [sync EXCEPT !.pc = "idle", !.outcome = "done"]
                        /\ conn' = [conn EXCEPT !.s2c = rest]
                        /\ ret' = Returned("synchronize", FALSE, sync.stats)
                        /\ UNCHANGED <<sock, lfs>>
                   ELSE \* any other action: the loop goes on
                        /\ conn' = [conn EXCEPT !.s2c = rest]
                        /\ ret' = Returned("sync_recv", FALSE, <<>>)
                        /\ UNCHANGED <<sock, lfs, sync>>

\* ------------------------------------------------------------------------
\* server.py: _handle_client (49-73), and what the network may do
\* ------------------------------------------------------------------------

\* recv_json (56) and the dispatch: a REQUEST_FILES message starts the sending
\* of its files, any other message is logged; when the stream has ended the
\* handler returns.
HostRecv ==
    /\ UNCHANGED auxvars
    /\ hpc = "recv"
    /\ IF conn.c2s # <<>>
       THEN LET msg == Head(conn.c2s)
            IN  /\ conn' = [conn EXCEPT !.c2s = Tail(@)]
                /\ IF msg.action = "REQUEST_FILES"
                   THEN hpc' = "send" /\ hqueue' = msg.files
                   ELSE UNCHANGED <<hpc, hqueue>>
       ELSE /\ ~conn.up
            /\ hpc' = "dead"
            /\ UNCHANGED <<conn, hqueue>>
    /\ UNCHANGED <<sock, index, folder_class, folder_override, lfs, hfs, plan, ret, sync, clean>>

\* One round of the loop over the requested files (64-70): the FILE message
\* with the size the file has now, then the file. A file that is gone makes
\* stat() raise, which ends the handler and closes its socket; so does a send
\* on a connection that is down.
HostSendFile ==
    /\ UNCHANGED auxvars
    /\ hpc = "send" /\ hqueue # <<>>
    /\ LET meta == Head(hqueue)
           path == <<workshop_root, meta.rel_folder>> \o meta.name
       IN  IF ~conn.up \/ ~is_file(hfs, path)
           THEN /\ hpc' = "dead"
                /\ hqueue' = <<>>
                /\ conn' = [conn EXCEPT !.up = FALSE]
           ELSE /\ conn' = [conn EXCEPT !.s2c =
                               @ \o <<JsonFrame([action |-> "FILE", rel_folder |-> meta.rel_folder,
                                                 name |-> meta.name, size |-> st_size(hfs, path)]),
                                      FileFrame(st_size(hfs, path), hfs[path].data)>>]
                /\ hqueue' = Tail(hqueue)
                /\ UNCHANGED hpc
    /\ UNCHANGED <<sock, index, folder_class, folder_override, lfs, hfs, plan, ret, sync, clean>>

\* send_json(cli, {"action": "DONE"}) (71), then back to recv_json.
HostSendDone ==
    /\ UNCHANGED auxvars
    /\ hpc = "send" /\ hqueue = <<>>
    /\ IF conn.up
       THEN conn' = [conn EXCEPT !.s2c = Append(@, JsonFrame([action |-> "DONE"]))] /\ hpc' = "recv"
       ELSE hpc' = "dead" /\ UNCHANGED conn
    /\ UNCHANGED <<sock, index, folder_class, folder_override, lfs, hfs, plan, ret, hqueue, sync,
                   clean>>

\* What is left of the last frame in flight when the connection ends inside
\* it: a JSON message is cut short; of a file the size is cut short, or the
\* last of its bytes is missing.
CutFrame(f, how) ==
    IF f.k = "json" THEN [f EXCEPT !.whole = FALSE]
    ELSE IF how = "cut_hdr" THEN [f EXCEPT !.hdr = FALSE, !.data = <<>>]
    ELSE [f EXCEPT !.data = SubSeq(@, 1, Len(@) - 1)]

\* The connection ends (the network, or the host's process): at a frame
\* boundary, or inside the last frame in flight. The handler's next recv_json
\* or send fails, which ends it; nothing it does until then is delivered.
Drop(how) ==
    /\ UNCHANGED auxvars
    /\ sock = "open" /\ conn.up
    /\ how # "eof" => conn.s2c # <<>>
    /\ how = "cut_data" =>
          LET f == conn.s2c[Len(conn.s2c)] IN f.k = "file" /\ f.data # <<>>
    /\ conn' = [conn EXCEPT
                  !.up = FALSE,
                  !.s2c = IF how = "eof" THEN @
                          ELSE [@ EXCEPT ![Len(@)] = CutFrame(@, how)]]
    /\ hpc' = "dead"
    /\ hqueue' = <<>>
    /\ UNCHANGED <<sock, index, folder_class, folder_override, lfs, hfs, plan, ret, sync, clean>>

\* A file on the host gets other content after the INDEX was sent.
HostWrite(p, c) ==
    /\ UNCHANGED auxvars
    /\ is_file(hfs, p) /\ hfs[p].data # c
    /\ hfs' = [hfs EXCEPT ![p] = FileNode(c, 2)]
    /\ clean' = FALSE
    /\ UNCHANGED <<sock, index, folder_class, folder_override, lfs, plan, ret, conn, hpc, hqueue,
                   sync>>

\* A file on the host is removed after the INDEX was sent.
HostRemove(p) ==
    /\ UNCHANGED auxvars
    /\ is_file(hfs, p)
    /\ hfs' = [hfs EXCEPT ![p] = NoNode]
    /\ clean' = FALSE
    /\ UNCHANGED <<sock, index, folder_class, folder_override, lfs, plan, ret, conn, hpc, hqueue,
                   sync>>

\* App._connect / App._refresh: build_plan() and _set_plan (gui.py 280-295).
ShowPlan ==
    /\ LET r == build_plan(lfs, index, folder_override, folder_class)
       IN  /\ ret' = Returned("show_plan", r.raised, <<>>)
           /\ plan' = IF r.raised THEN plan ELSE r.value
    /\ UNCHANGED <<sock, index, folder_class, folder_override, lfs, hfs, netvars>>

\* ------------------------------------------------------------------------
\* The synchronizing client, its host and the network
\* ------------------------------------------------------------------------

\* Largest number of keys in one selection.
MaxSelected == 2

Selections == {S \in SUBSET SelKeys : Cardinality(S) <= MaxSelected}

\* Largest number of synchronize calls in one run.
MaxCalls == 2

\* The host trees a client synchronizes with: a.crp holds one byte or two,
\* the other files one.
SyncHostStates ==
    {HostFsOf(f) : f \in {g \in [HostKeys -> {FileNode(<<1>>, 2), FileNode(<<1, 2>>, 2), NoNode}] :
                             /\ Cardinality({k \in HostKeys : g[k].t = "file"}) <= MaxHostFiles
                             /\ \A k \in HostKeys :
                                   g[k].data = <<1, 2>> => k = <<workshop_root, "1", "a.crp">>}}

\* Where the environment puts nodes before the client connects: the target
\* of 1/a.crp below assets_path or a directory in its place, and a regular
\* file where the directory of folder "2" would be.
SyncDirPaths == {<<assets_path, "1">>, <<assets_path, "1", "a.crp">>}
SyncFilePaths == {<<assets_path, "1", "a.crp">>, <<assets_path, "2">>}

\* Before the first connect. Connected with the plan shown (App._connect shows
\* it right after connect), no call in progress and one to come. Between two
\* calls of the client the environment changes one thing.
Setup == sock = "none" /\ sync.outcome = "none"
Idle == sock = "open" /\ sync.pc = "idle" /\ sync.calls < MaxCalls /\ ret.op # "connect"
Quiet == Idle /\ ret.op # "void"

NextSync ==
    \/ \E p \in SyncDirPaths : Setup /\ LocalMkdir(p)
    \/ \E p \in SyncFilePaths : Setup /\ LocalWrite(p, <<1>>)
    \/ Quiet /\ LocalRemove(<<assets_path, "1", "a.crp">>)
    \/ \E h \in SyncHostStates : Setup /\ ConnectOk(h)
    \/ sock = "open" /\ ret.op = "connect" /\ ShowPlan
    \/ \E sel \in Selections : (sock = "none" \/ Idle) /\ sync.calls < MaxCalls /\ SyncStart(sel)
    \/ SyncRecv
    \/ HostRecv
    \/ HostSendFile
    \/ HostSendDone
    \/ \E how \in {"eof", "cut_hdr", "cut_data"} : (Idle \/ sync.pc = "recv") /\ Drop(how)
    \/ \E c \in {<<1>>, <<1, 2>>} : Quiet /\ HostWrite(<<workshop_root, "1", "a.crp">>, c)
    \/ Quiet /\ HostRemove(<<workshop_root, "1", "a.crp">>)

SpecSync == InitClient /\ [][NextSync]_vars

\* ------------------------------------------------------------------------
\* Claims about the planner
\* ------------------------------------------------------------------------

PlanReturned == ret.op = "build_plan" /\ ~ret.raised

\* The folder IDs of the index.
IndexIds == {index[i].rel_folder : i \in 1..Len(index)}

\* The root a folder ID resolves to: its override, else mods for a folder
\* classified mods, else assets.
BaseRootOf(gid) ==
    LET b == IF gid \in DOMAIN folder_override THEN folder_override[gid]
             ELSE IF gid \in DOMAIN folder_class /\ folder_class[gid] = "mods" THEN "mods"
             ELSE "assets"
    IN  IF b = "mods" THEN mods_path ELSE assets_path

NodeAt(fs, p) == IF p \in DOMAIN fs THEN fs[p] ELSE NoNode

\* C1: every entry of the index has a file-level item in the plan build_plan
\* returns, and a file-level item of an entry is SAME iff a file with the
\* entry's hash exists at <base>/<folder ID>/<relative path>, UPDATE iff a file
\* with another hash exists there, NEW iff nothing exists there; size and
\* mtime of the entry and the folder's classification play no part.
C1_FileActionByHash ==
    PlanReturned =>
        /\ \A i \in 1..Len(index) :
             \E j \in 1..Len(ret.value) :
                /\ ret.value[j].level = "file"
                /\ ret.value[j].key = KeyOf(index[i])
                /\ ret.value[j].entry = index[i]
        /\ \A j \in 1..Len(ret.value) :
             LET it == ret.value[j]
                 t == <<BaseRootOf(it.entry.rel_folder), it.entry.rel_folder>> \o it.entry.name
                 node == NodeAt(lfs, t)
             IN  (it.level = "file" /\ it.action # "DELETE") =>
                    /\ it.target = t
                    /\ it.action \in {"SAME", "UPDATE", "NEW"}
                    /\ it.action = "SAME" <=>
                          (node.t = "file" /\ Sha256(node.data) = it.entry.sha256)
                    /\ it.action = "UPDATE" <=>
                          (node.t = "file" /\ Sha256(node.data) # it.entry.sha256)
                    /\ it.action = "NEW" <=> node.t = "none"

\* C1 witness: a returned plan with a file that is SAME although its time
\* differs from the entry's, and a file under the mods root that is UPDATE
\* although its size and time equal the entry's.
C1_Witness ==
    /\ PlanReturned
    /\ \E i, j \in 1..Len(ret.value) :
          /\ ret.value[i].level = "file" /\ ret.value[i].action = "SAME"
          /\ lfs[ret.value[i].target].mtime # ret.value[i].entry.mtime
          /\ ret.value[j].level = "file" /\ ret.value[j].action = "UPDATE"
          /\ ret.value[j].target[1] = mods_path
          /\ lfs[ret.value[j].target].mtime = ret.value[j].entry.mtime
          /\ Len(lfs[ret.value[j].target].data) = ret.value[j].entry.size

\* The actions of the file-level items of folder ID gid in a plan.
FileActionsOf(items, gid) ==
    {items[j].action : j \in {k \in 1..Len(items) :
                                items[k].level = "file" /\ items[k].entry.rel_folder = gid}}

\* C2: for every folder ID of the index the plan holds one folder-level item,
\* whose action is UPDATE if a file of the folder is UPDATE, else NEW if a file
\* is NEW, else SAME.
C2_FolderAggregation ==
    PlanReturned =>
        \A gid \in IndexIds :
            LET fitems == {j \in 1..Len(ret.value) :
                              ret.value[j].level = "folder" /\ ret.value[j].key = <<gid>>}
                acts == FileActionsOf(ret.value, gid)
            IN  /\ Cardinality(fitems) = 1
                /\ \A j \in fitems :
                      ret.value[j].action =
                          IF "UPDATE" \in acts THEN "UPDATE"
                          ELSE IF "NEW" \in acts THEN "NEW"
                          ELSE "SAME"

\* C2 witness: a folder whose files are UPDATE and NEW, reported UPDATE.
C2_Witness ==
    /\ PlanReturned
    /\ \E j \in 1..Len(ret.value) :
          /\ ret.value[j].level = "folder" /\ ret.value[j].action = "UPDATE"
          /\ FileActionsOf(ret.value, ret.value[j].entry.rel_folder) = {"UPDATE", "NEW"}

\* The numeric-named directories directly under the assets or the mods root.
NumericLocalDirs ==
    {d \in DirNames : isdigit(d) /\ \E r \in Roots : NodeAt(lfs, <<r, d>>).t = "dir"}

\* C5: in a returned plan the folder-level DELETE items are exactly those of
\* the numeric-named local directories whose ID is the folder of no index key
\* (one item each, keyed (delete)/ID); all DELETE items belong to such an ID and
\* no NEW/UPDATE/SAME item does.
C5_DeleteCandidates ==
    PlanReturned =>
        LET items == ret.value
            delFolders == {j \in 1..Len(items) :
                              items[j].level = "folder" /\ items[j].action = "DELETE"}
            delIds == {items[j].entry.rel_folder : j \in delFolders}
        IN  /\ delIds = NumericLocalDirs \ IndexIds
            /\ \A j, k \in delFolders :
                  items[j].entry.rel_folder = items[k].entry.rel_folder => j = k
            /\ \A j \in delFolders : items[j].key = <<"(delete)", items[j].entry.rel_folder>>
            /\ \A j \in 1..Len(items) :
                  (items[j].action = "DELETE") <=> (items[j].entry.rel_folder \in delIds)

\* C5 witness: a plan with a DELETE item for a directory that exists under
\* the mods root only, next to a non-numeric directory, a numeric-named regular
\* file and a folder of the index that exists locally.
C5_Witness ==
    /\ PlanReturned
    /\ \E j \in 1..Len(ret.value) :
          /\ ret.value[j].level = "folder" /\ ret.value[j].action = "DELETE"
          /\ ~exists(lfs, <<assets_path, ret.value[j].entry.rel_folder>>)
    /\ is_dir(lfs, <<assets_path, "x">>)
    /\ \E gid \in IndexIds : is_dir(lfs, <<assets_path, gid>>)

\* ------------------------------------------------------------------------
\* Claims about classification and targets
\* ------------------------------------------------------------------------

KindsOf(gid) == {index[i].kind : i \in {k \in 1..Len(index) : index[k].rel_folder = gid}}

\* C3: after a successful connect every folder ID of the received index, and
\* nothing else, is classified: assets with a crp and no dll, mods with a dll
\* and no crp, mixed with both, assets with neither.
C3_Classification ==
    sock = "open" =>
        /\ DOMAIN folder_class = IndexIds
        /\ \A gid \in IndexIds :
              folder_class[gid] =
                  IF "crp" \in KindsOf(gid) /\ "dll" \notin KindsOf(gid) THEN "assets"
                  ELSE IF "dll" \in KindsOf(gid) /\ "crp" \notin KindsOf(gid) THEN "mods"
                  ELSE IF "crp" \in KindsOf(gid) /\ "dll" \in KindsOf(gid) THEN "mixed"
                  ELSE "assets"

\* C3 witness: connected, with one folder mixed.
C3_Witness ==
    /\ sock = "open"
    /\ ret = Returned("connect", FALSE, TRUE)
    /\ \E gid \in IndexIds : KindsOf(gid) = {"crp", "dll"} /\ folder_class[gid] = "mixed"

\* C4: get_folder_target returns assets or mods: the override of the folder
\* when one is set, else mods for a folder classified mods, else assets (mixed
\* and unknown folders included).
C4_FolderTarget ==
    ret.op = "get_folder_target" =>
        LET gid == ret.value[1]
            got == ret.value[2]
        IN  /\ got \in {"assets", "mods"}
            /\ gid \in DOMAIN folder_override => got = folder_override[gid]
            /\ gid \notin DOMAIN folder_override =>
                  got = IF gid \in DOMAIN folder_class /\ folder_class[gid] = "mods"
                        THEN "mods" ELSE "assets"

\* C4 witness: the target of a folder classified mixed, or assets, that is
\* overridden to mods.
C4_Witness ==
    /\ ret.op = "get_folder_target"
    /\ ret.value[1] \in DOMAIN folder_class
    /\ folder_class[ret.value[1]] = "mixed"
    /\ ret.value[1] \in DOMAIN folder_override
    /\ ret.value[2] = "mods"

\* ------------------------------------------------------------------------
\* A peer that does not follow server.py
\* ------------------------------------------------------------------------

\* What such a peer may put on the stream: a FILE message for a key the index
\* does not hold, with its file; a FILE message without rel_folder and size;
\* a message with an action the client does not know.
ForeignFrames ==
    {<<JsonFrame([action |-> "FILE", rel_folder |-> "9", name |-> <<"z.crp">>, size |-> 1]),
       FileFrame(1, <<1>>)>>,
     <<JsonFrame([action |-> "FILE", name |-> <<"a.crp">>])>>,
     <<JsonFrame([action |-> "PING"])>>}

\* The peer puts such frames between those of an answer, when the client has
\* read all that came before.
PeerSends(frames) ==
    /\ UNCHANGED auxvars
    /\ sync.pc = "recv" /\ conn.up /\ hpc = "send" /\ conn.s2c = <<>>
    /\ conn' = [conn EXCEPT !.s2c = frames]
    /\ UNCHANGED <<sock, index, folder_class, folder_override, lfs, hfs, plan, ret, hpc, hqueue,
                   sync, clean>>

\* The client and its calls as before, against such a peer; the environment
\* leaves both filesystems alone once the client is connected.
NextPeer ==
    \/ \E p \in SyncDirPaths : Setup /\ LocalMkdir(p)
    \/ \E p \in SyncFilePaths : Setup /\ LocalWrite(p, <<1>>)
    \/ \E h \in SyncHostStates : Setup /\ ConnectOk(h)
    \/ \E sel \in Selections : sync.pc = "idle" /\ sync.calls < MaxCalls /\ SyncStart(sel)
    \/ SyncRecv
    \/ HostRecv
    \/ HostSendFile
    \/ HostSendDone
    \/ \E how \in {"eof", "cut_hdr", "cut_data"} : sync.calls < MaxCalls /\ Drop(how)
    \/ \E frames \in ForeignFrames : PeerSends(frames)

SpecPeer == InitClient /\ [][NextPeer]_vars

\* ------------------------------------------------------------------------
\* Claims about synchronize
\* ------------------------------------------------------------------------

\* A key of the call's selection asks for a transfer: nothing is at the target
\* of its entry, or what is there has another hash than the entry.
NeedsTransfer(fs, k) ==
    LET e == index_get(index, k)
        t == <<BaseRootOf(k[1]), e.rel_folder>> \o e.name
    IN  NodeAt(fs, t).t = "none" \/ Sha256(NodeAt(fs, t).data) # e.sha256

\* The keys of the entries a REQUEST_FILES message asks for.
RequestedKeys(sent) ==
    IF sent = <<>> THEN {} ELSE {KeyOf(sent[1].files[i]) : i \in 1..Len(sent[1].files)}

C7_RequestAtCallTime ==
    /\ Len(sync.sent) <= 1
    /\ ret.op = "sync_send" =>
          /\ Len(sync.sent) = 1
          /\ sync.sent[1].action = "REQUEST_FILES"
          /\ \A i \in 1..Len(sync.sent[1].files) :
                sync.sent[1].files[i] = index_get(index, KeyOf(sync.sent[1].files[i]))
          /\ \A i, j \in 1..Len(sync.sent[1].files) :
                KeyOf(sync.sent[1].files[i]) = KeyOf(sync.sent[1].files[j]) => i = j
          /\ RequestedKeys(sync.sent) = {k \in Range(sync.keys) : NeedsTransfer(lfs, k)}
    /\ (ret.op = "synchronize" /\ sync.outcome = "nothing") =>
          \A k \in Range(sync.keys) : ~NeedsTransfer(lfs, k)

\* A request is sent while the plan shown is stale both ways: a file the plan
\* calls NEW is SAME now and is not requested, a file it calls SAME is gone
\* now and is requested.
C7_Witness ==
    /\ ret.op = "sync_send"
    /\ \E i \in 1..Len(plan) :
          /\ plan[i].level = "file" /\ plan[i].action = "NEW"
          /\ plan[i].key \in Range(sync.keys) \ RequestedKeys(sync.sent)
    /\ \E i \in 1..Len(plan) :
          /\ plan[i].level = "file" /\ plan[i].action # "NEW"
          /\ plan[i].key \in RequestedKeys(sync.sent)

\* A synchronize call of a connected client: the step in which it begins.
CallStep == sock = "open" /\ sync'.calls = sync.calls + 1

\* C8: when the selection expands to no file, or every selected file is SAME
\* at the call, the call returns at once: nothing is put on or taken from the
\* connection, the client stays connected, on_disconnect is not called, and
\* the statistics say to_transfer = 0, transferred_files = 0 and
\* selected_total = the number of selected files.
C8_NothingToTransfer ==
    [][(CallStep /\ sync'.outcome # "raised"
            /\ \A k \in Range(sync'.keys) : ~NeedsTransfer(lfs, k))
       => /\ conn' = conn /\ sock' = "open" /\ lfs' = lfs
          /\ sync'.pc = "idle" /\ sync'.sent = <<>> /\ sync'.notified = 0
          /\ ret' = Returned("synchronize", FALSE,
                             [stats0(Len(sync'.keys)) EXCEPT !.same_count = Len(sync'.keys)])]_vars

\* Such a call returned: of two files, on a connection that is up, and on
\* one that is down without the client knowing.
C8_Witness ==
    /\ ret.op = "synchronize" /\ sync.outcome = "nothing"
    /\ Len(sync.keys) = 2
    /\ sock = "open" /\ ~conn.up

\* The sum of the sizes announced for the files received.
RECURSIVE BytesOf(_)
BytesOf(got) == IF got = <<>> THEN 0 ELSE got[1].announced + BytesOf(Tail(got))

\* C9: a failure after synchronize has begun to talk to the peer (the send
\* fails, the stream ends, a message or a file is cut short, a FILE message
\* lacks a field or names a key the index does not hold, the file cannot be
\* written) does not make it raise: it returns the statistics as they were at
\* the failure, the client is not connected any more, and on_disconnect was
\* called once. It raises only before it talks, and calls on_disconnect in no
\* other case.
C9_LoopFailure ==
    /\ sync.notified = (IF sync.outcome = "lost" THEN 1 ELSE 0)
    /\ (ret.op = "synchronize" /\ ret.raised) =>
          sync.outcome = "raised" /\ sync.sent = <<>> /\ sync.got = <<>>
    /\ (ret.op = "synchronize" /\ sync.outcome = "lost") =>
          /\ ~ret.raised
          /\ sock = "none"
          /\ ret.value.selected_total = Len(sync.keys)
          /\ ret.value.to_transfer = Cardinality({k \in Range(sync.keys) : k \in sync.wanted})
          /\ ret.value.transferred_files = Len(sync.got)
          /\ ret.value.bytes = BytesOf(sync.got)
          /\ ret.value.assets_files + ret.value.mods_files = Len(sync.got)

\* A call that had received one of its two files failed.
C9_Witness ==
    /\ ret.op = "synchronize" /\ sync.outcome = "lost"
    /\ ret.value.to_transfer = 2 /\ ret.value.transferred_files = 1
    /\ sync.notified = 1

\* C10: when a call ends because the connection is lost, every file it had
\* received completely is on the local filesystem with the bytes received.
C10_ReceivedFilesKept ==
    (ret.op = "synchronize" /\ sync.outcome = "lost") =>
        \A i \in 1..Len(sync.got) :
            Len(sync.got[i].data) = sync.got[i].size =>
                NodeAt(lfs, sync.got[i].target) = FileNode(sync.got[i].data, 1)

\* The connection ended inside the second file: the first is there in full.
C10_Witness ==
    /\ ret.op = "synchronize" /\ sync.outcome = "lost"
    /\ Len(sync.got) = 2
    /\ Len(sync.got[1].data) = sync.got[1].size
    /\ Len(sync.got[2].data) < sync.got[2].size
    /\ lfs[sync.got[1].target].data = sync.got[1].data

\* ------------------------------------------------------------------------
\* server.py: the accept loop and the handlers of several connections
\* ------------------------------------------------------------------------

\* The connections the host may accept.
Conns == {1, 2}

\* Largest number of messages a client sends on one connection.
MaxMessages == 2

\* A handler and its connection. inbox: what the client has sent and the
\* handler has not read; queue: the files of the request being served; up:
\* the connection holds. History: read, the messages recv_json returned; out,
\* the frames the handler sent; seen, the tree its scan found; by, who ended
\* the connection ("peer": the client or the network, "host": the handler).
NoHandler ==
    [pc |-> "none", inbox |-> <<>>, queue |-> <<>>, up |-> FALSE,
     read |-> <<>>, out |-> <<>>, seen |-> <<>>, by |-> "none"]

\* msg.get("action"): None for a message without the key.
None == "(None)"
get_action(msg) == IF "action" \in DOMAIN msg THEN msg.action ELSE None

\* An exception leaves _handle_client: `with cli` closes the socket, the
\* thread ends. Nothing else is touched.
HandlerEnds(h) ==
    [h EXCEPT !.pc = "dead", !.queue = <<>>, !.up = FALSE,
              !.by = IF h.up THEN "host" ELSE h.by]

\* A failure that takes every running handler down with the one it hit.
thread_ends_all(handlers, c, h) ==
    [d \in DOMAIN handlers |->
        IF d = c THEN HandlerEnds(h)
        ELSE IF handlers[d].pc \in {"none", "dead"} THEN handlers[d]
        ELSE HandlerEnds(handlers[d])]

\* The thread of connection c ends (47, 50): one thread for each accepted
\* socket, with cli: closes that socket alone.
thread_ends(handlers, c, h) == [handlers EXCEPT ![c] = HandlerEnds(h)]

\* _run (41-47): accept() returned a connection; its handler thread starts.
Accept(c) ==
    /\ \A d \in Conns : d < c => srv.h[d].pc # "none"
    /\ srv.accepting /\ srv.h[c].pc = "none"
    /\ srv' = [srv EXCEPT !.h[c] = [NoHandler EXCEPT !.pc = "index", !.up = TRUE]]
    /\ UNCHANGED <<sock, index, folder_class, folder_override, lfs, hfs, plan, ret, conn, hpc,
                   hqueue, sync, clean, wire, gui, workers>>

\* stop(): the listening socket is closed, accept() raises OSError, the loop
\* ends. The handlers are threads of their own and go on.
Stop ==
    /\ srv.accepting
    /\ srv' = [srv EXCEPT !.accepting = FALSE]
    /\ UNCHANGED <<sock, index, folder_class, folder_override, lfs, hfs, plan, ret, conn, hpc,
                   hqueue, sync, clean, wire, gui, workers>>

\* The INDEX message of a handler that keeps the index of the first scan.
index_message_cached(fs, handlers) ==
    IF \E d \in DOMAIN handlers : handlers[d].out # <<>>
    THEN handlers[CHOOSE d \in DOMAIN handlers : handlers[d].out # <<>>].out[1].msg
    ELSE build_index(fs)

\* idx = build_index(self.workshop_root) (51): a scan of the tree as it is.
index_message(fs, handlers) == build_index(fs)

\* _handle_client (51-52): build the index and send it.
HandleIndex(c) ==
    /\ srv.h[c].pc = "index"
    /\ srv' = [srv EXCEPT !.h =
                 IF @[c].up
                 THEN [@ EXCEPT ![c].pc = "recv", ![c].seen = hfs,
                                ![c].out = <<JsonFrame(index_message(hfs, srv.h))>>]
                 ELSE thread_ends(@, c, @[c])]
    /\ UNCHANGED <<sock, index, folder_class, folder_override, lfs, hfs, plan, ret, conn, hpc,
                   hqueue, sync, clean, wire, gui, workers>>

\* The dispatch that ends the session on a message it does not know.
host_dispatch_strict(msg) == IF get_action(msg) = "REQUEST_FILES" THEN "serve" ELSE "end"

\* The dispatch on action (60-73).
host_dispatch(msg) == IF get_action(msg) = "REQUEST_FILES" THEN "serve" ELSE "ignore"

\* msg.get("files", {})
get_files(msg) == IF "files" \in DOMAIN msg THEN msg.files ELSE <<>>

\* recv_json (56) and the dispatch; the end of the stream ends the loop.
HandleRecv(c) ==
    /\ srv.h[c].pc = "recv"
    /\ LET h == srv.h[c]
       IN  IF h.inbox # <<>>
           THEN LET msg == Head(h.inbox)
                    took == [h EXCEPT !.inbox = Tail(@), !.read = Append(@, msg)]
                IN  srv' = [srv EXCEPT !.h =
                              CASE host_dispatch(msg) = "serve" ->
                                      [@ EXCEPT ![c] = [took EXCEPT !.pc = "send",
                                                                    !.queue = get_files(msg)]]
                                [] host_dispatch(msg) = "ignore" -> [@ EXCEPT ![c] = took]
                                [] OTHER -> thread_ends(@, c, took)]
           ELSE /\ ~h.up
                /\ srv' = [srv EXCEPT !.h = thread_ends(@, c, h)]
    /\ UNCHANGED <<sock, index, folder_class, folder_override, lfs, hfs, plan, ret, conn, hpc,
                   hqueue, sync, clean, wire, gui, workers>>

\* One round of the loop over the files of a request (64-70).
HandleSendFile(c) ==
    /\ srv.h[c].pc = "send" /\ srv.h[c].queue # <<>>
    /\ LET h == srv.h[c]
           meta == Head(h.queue)
           path == <<workshop_root, meta.rel_folder>> \o meta.name
       IN  srv' = [srv EXCEPT !.h =
                     IF ~h.up \/ ~is_file(hfs, path)
                     THEN thread_ends(@, c, h)
                     ELSE [@ EXCEPT
                             ![c].queue = Tail(@),
                             ![c].out = @ \o <<JsonFrame([action |-> "FILE",
                                                          rel_folder |-> meta.rel_folder,
                                                          name |-> meta.name,
                                                          size |-> st_size(hfs, path)]),
                                               FileFrame(st_size(hfs, path), hfs[path].data)>>]]
    /\ UNCHANGED <<sock, index, folder_class, folder_override, lfs, hfs, plan, ret, conn, hpc,
                   hqueue, sync, clean, wire, gui, workers>>

\* send_json(cli, {"action": "DONE"}) (71)
HandleSendDone(c) ==
    /\ srv.h[c].pc = "send" /\ srv.h[c].queue = <<>>
    /\ srv' = [srv EXCEPT !.h =
                 IF @[c].up
                 THEN [@ EXCEPT ![c].pc = "recv",
                                ![c].out = Append(@, JsonFrame([action |-> "DONE"]))]
                 ELSE thread_ends(@, c, @[c])]
    /\ UNCHANGED <<sock, index, folder_class, folder_override, lfs, hfs, plan, ret, conn, hpc,
                   hqueue, sync, clean, wire, gui, workers>>

\* Largest number of files one request names.
MaxRequested == 2

\* The files maps a client may build from the entries of an index: up to
\* MaxRequested entries, in any order of insertion.
RequestMaps(entries) ==
    {f \in UNION {[1..n -> Range(entries)] : n \in 0..MaxRequested} :
        \A a, b \in 1..Len(f) : f[a] = f[b] => a = b}

\* What a client may send: a message with an action the host does not know
\* and one without action at any time, a request once it holds the index.
ClientMessages(h) ==
    {[action |-> "PING"], [hello |-> "x"]}
    \cup (IF h.out = <<>> THEN {}
          ELSE {[action |-> "REQUEST_FILES", files |-> f] : f \in RequestMaps(h.out[1].msg.entries)})

\* The number of messages the clients have sent on all connections.
RECURSIVE SentUpTo(_, _)
SentUpTo(handlers, c) ==
    IF c = 0 THEN 0
    ELSE Len(handlers[c].inbox) + Len(handlers[c].read) + SentUpTo(handlers, c - 1)

Sent(handlers) == SentUpTo(handlers, Cardinality(Conns))

\* send_json on the client's end of connection c. A client sends one message
\* at a time: the next one when the handler has taken the last.
ClientSends(c, m) ==
    /\ srv.h[c].pc # "none" /\ srv.h[c].up
    /\ srv.h[c].pc = "recv" /\ srv.h[c].inbox = <<>>
    /\ Sent(srv.h) < MaxMessages
    /\ srv' = [srv EXCEPT !.h[c].inbox = Append(@, m)]
    /\ UNCHANGED <<sock, index, folder_class, folder_override, lfs, hfs, plan, ret, conn, hpc,
                   hqueue, sync, clean, wire, gui, workers>>

\* The client closes connection c, or the network loses it.
PeerGone(c) ==
    /\ srv.h[c].pc # "none" /\ srv.h[c].up
    /\ srv' = [srv EXCEPT !.h[c].up = FALSE, !.h[c].by = "peer"]
    /\ UNCHANGED <<sock, index, folder_class, folder_override, lfs, hfs, plan, ret, conn, hpc,
                   hqueue, sync, clean, wire, gui, workers>>

\* The content root the host starts on: 1/a.crp of two bytes and 2/c.txt of
\* one, beside a directory that is not numeric.
ServedTree ==
    HostFsOf([k \in HostKeys |->
                 IF k = <<workshop_root, "1", "a.crp">> THEN FileNode(<<1, 2>>, 2)
                 ELSE IF k = <<workshop_root, "2", "c.txt">> THEN FileNode(<<1>>, 2)
                 ELSE NoNode])

\* The file that is removed from the content root while the host runs.
Vanishing == <<workshop_root, "1", "a.crp">>

\* start(): the accept loop runs, no connection yet.
InitHost ==
    /\ sock = "none"
    /\ index = <<>>
    /\ folder_class = NoOverride
    /\ folder_override = NoOverride
    /\ lfs = [p \in LocalPaths |-> IF Len(p) = 1 THEN DirNode ELSE NoNode]
    /\ hfs = ServedTree
    /\ plan = <<>>
    /\ ret = Void
    /\ conn = [NewConn EXCEPT !.up = FALSE]
    /\ hpc = "none"
    /\ hqueue = <<>>
    /\ sync = NoSync
    /\ clean = FALSE
    /\ srv = [accepting |-> TRUE, h |-> [c \in Conns |-> NoHandler]]
    /\ wire = NoWire
    /\ gui = NewApp
    /\ workers = NoWorkers

NextHost ==
    \/ \E c \in Conns : Accept(c)
    \/ Stop
    \/ \E c \in Conns : HandleIndex(c)
    \/ \E c \in Conns : HandleRecv(c)
    \/ \E c \in Conns : HandleSendFile(c)
    \/ \E c \in Conns : HandleSendDone(c)
    \/ \E c \in Conns : \E m \in ClientMessages(srv.h[c]) : ClientSends(c, m)
    \/ \E c \in Conns : PeerGone(c)
    \/ HostRemove(Vanishing)

SpecHost == InitHost /\ [][NextHost]_vars

TypeHostOK == srv.accepting \in BOOLEAN

\* ------------------------------------------------------------------------
\* Claims on the host
\* ------------------------------------------------------------------------

\* Frames 2i-1 and 2i answer entry i of the files map: a FILE header naming
\* the entry, then bytes of the length the header gives.
IsFilePair(frames, i, meta) ==
    /\ frames[2 * i - 1].k = "json"
    /\ frames[2 * i - 1].msg.action = "FILE"
    /\ frames[2 * i - 1].msg.rel_folder = meta.rel_folder
    /\ frames[2 * i - 1].msg.name = meta.name
    /\ frames[2 * i].k = "file"
    /\ frames[2 * i].size = frames[2 * i - 1].msg.size
    /\ Len(frames[2 * i].data) = frames[2 * i].size

IsDone(frame) == frame.k = "json" /\ frame.msg.action = "DONE"

\* frames is the whole answer to one request: a pair for each entry in the
\* order of the map, then DONE and nothing else.
IsAnswerTo(frames, files) ==
    /\ Len(frames) = 2 * Len(files) + 1
    /\ \A i \in 1..Len(files) : IsFilePair(frames, i, files[i])
    /\ IsDone(frames[Len(frames)])

\* frames is the start of an answer that has not reached DONE.
IsPartialAnswer(frames, files) ==
    /\ Len(frames) % 2 = 0 /\ Len(frames) <= 2 * Len(files)
    /\ \A i \in 1..(Len(frames) \div 2) : IsFilePair(frames, i, files[i])

\* frames answers the requests reqs one after the other. The answer to the
\* last of them is whole when last is "whole", not yet whole when it is
\* "open", one or the other when it is "cut".
RECURSIVE AnswersAll(_, _, _)
AnswersAll(frames, reqs, last) ==
    IF reqs = <<>> THEN frames = <<>>
    ELSE LET files == get_files(Head(reqs))
             n == 2 * Len(files) + 1
         IN  IF Len(reqs) = 1 /\ last # "whole"
             THEN \/ IsPartialAnswer(frames, files)
                  \/ last = "cut" /\ IsAnswerTo(frames, files)
             ELSE /\ Len(frames) >= n
                  /\ IsAnswerTo(SubSeq(frames, 1, n), files)
                  /\ AnswersAll(SubSeq(frames, n + 1, Len(frames)), Tail(reqs), last)

IsRequest(m) == get_action(m) = "REQUEST_FILES"

RequestsRead(h) == SelectSeq(h.read, IsRequest)

\* The handler is inside the answer to the last request it read.
Serving(h) == h.pc = "send"

\* What holds of the code: the frames after INDEX answer the requests in
\* the order read, each by its pairs in map order and then one DONE; only
\* the last answer may be open, while it is served or after the handler ended.
HostAnswersInOrder ==
    \A c \in Conns :
        LET h == srv.h[c]
        IN  h.out # <<>> =>
                AnswersAll(Tail(h.out), RequestsRead(h),
                           IF Serving(h) THEN "open" ELSE IF h.pc = "dead" THEN "cut" ELSE "whole")

\* C11: the frames a handler has sent after INDEX answer the requests it has
\* read, each by one FILE header and the bytes for every entry in map order
\* and then exactly one DONE; an answer is open only while it is served or
\* when the peer ended the connection: the host never ends a connection with
\* a request unanswered.
C11_EveryRequestAnswered ==
    \A c \in Conns :
        LET h == srv.h[c]
        IN  h.out # <<>> =>
                AnswersAll(Tail(h.out), RequestsRead(h),
                           IF Serving(h) THEN "open"
                           ELSE IF h.pc = "dead" /\ h.by = "peer" THEN "cut" ELSE "whole")

\* C12: the first frame a handler sends is the INDEX message whose entries
\* are the scan of the content root as it is when the handler of that
\* connection starts, and the handler has read nothing before it sent it.
C12_IndexFirstAndFresh ==
    \A c \in Conns :
        LET h == srv.h[c]
        IN  /\ h.out = <<>> => h.read = <<>>
            /\ h.out # <<>> =>
                  /\ h.out[1].k = "json" /\ h.out[1].whole
                  /\ h.out[1].msg.action = "INDEX"
                  /\ h.out[1].msg.entries = scan_workshop(h.seen)
                  /\ \A i \in 2..Len(h.out) :
                        h.out[i].k = "json" => h.out[i].msg.action # "INDEX"

\* Two connections were accepted with a file removed in between: both got
\* an INDEX, and the two differ.
C12_Witness ==
    /\ srv.h[1].out # <<>> /\ srv.h[2].out # <<>>
    /\ srv.h[1].out[1].msg.entries # srv.h[2].out[1].msg.entries
    /\ srv.h[2].out[1].msg.entries = scan_workshop(hfs)

\* The handler of c takes a message that is no request from its stream.
TakesOther(c) ==
    /\ srv.h[c].pc = "recv" /\ srv.h[c].inbox # <<>>
    /\ ~IsRequest(Head(srv.h[c].inbox))
    /\ srv'.h[c].read = Append(srv.h[c].read, Head(srv.h[c].inbox))

\* C13: the step in which a handler reads a message whose action is not
\* REQUEST_FILES, or that has no action, sends nothing, leaves the connection
\* as it is and leaves the handler waiting for the next message.
C13_OtherActionIgnored ==
    [][\A c \in Conns :
          TakesOther(c) =>
              /\ srv'.h[c].out = srv.h[c].out
              /\ srv'.h[c].up = srv.h[c].up
              /\ srv'.h[c].pc = "recv"
              /\ srv'.h[c].by = srv.h[c].by]_vars

\* A handler read a message without action, sent nothing for it, then read
\* a request for a file and answered it whole on the open connection.
C13_Witness ==
    \E c \in Conns :
        LET h == srv.h[c]
        IN  /\ Len(h.read) = 2 /\ "action" \notin DOMAIN h.read[1] /\ IsRequest(h.read[2])
            /\ h.up /\ h.pc = "recv"
            /\ Len(h.out) = 4 /\ IsAnswerTo(Tail(h.out), get_files(h.read[2]))

\* The handler of c fails on its own request: the file it is to send next
\* is gone.
OwnFailure(c) ==
    /\ srv.h[c].pc = "send" /\ srv.h[c].queue # <<>>
    /\ LET meta == Head(srv.h[c].queue)
       IN  ~is_file(hfs, <<workshop_root, meta.rel_folder>> \o meta.name)

\* C14: a step changes the state of one handler at most; the accept loop
\* ends by stop() alone, in a step that touches no handler; and a handler
\* ends only when its own connection is lost or its own request fails, so
\* what happens to one client ends no other handler and takes no frame from
\* another client's answers.
C14_HandlersIndependent ==
    [][/\ \A c, d \in Conns : c # d => srv'.h[c] = srv.h[c] \/ srv'.h[d] = srv.h[d]
       /\ srv'.accepting # srv.accepting => srv'.h = srv.h /\ ~srv'.accepting
       /\ \A c \in Conns :
             srv.h[c].pc # "dead" /\ srv'.h[c].pc = "dead" =>
                 ~srv.h[c].up \/ OwnFailure(c)
       /\ \A c \in Conns :
             srv.h[c].out # <<>> =>
                 /\ Len(srv'.h[c].out) >= Len(srv.h[c].out)
                 /\ SubSeq(srv'.h[c].out, 1, Len(srv.h[c].out)) = srv.h[c].out]_vars

\* The handler of connection 1 failed while serving; the loop, still
\* accepting, took connection 2 after the file was gone, and client 2 has its
\* INDEX and the whole answer to its request.
C14_Witness ==
    /\ srv.h[1].pc = "dead" /\ srv.h[1].by = "host"
    /\ srv.accepting
    /\ LET h == srv.h[2]
       IN  /\ h.up /\ h.pc = "recv" /\ Len(h.read) = 1 /\ IsRequest(h.read[1])
           /\ Len(h.out) = 4 /\ IsAnswerTo(Tail(h.out), get_files(h.read[1]))
           /\ h.seen # srv.h[1].seen

\* ------------------------------------------------------------------------
\* utils.py: the framing of JSON messages on a stream of bytes
\* ------------------------------------------------------------------------

\* Bytes are integers 0..255; text is ASCII (json.dumps escapes the rest).
LBRACE == 123
RBRACE == 125
QUOTE == 34
COLON == 58
COMMA == 44
SPACE == 32

\* ord() of the characters used as keys, and of a digit.
Ord(ch) == IF ch = "a" THEN 97 ELSE IF ch = "f" THEN 102 ELSE 122
OrdDigit(n) == 48 + n

\* The messages sent: dicts of one-letter keys and one-digit numbers, as
\* sequences of items in the order of insertion.
Item(k, v) == [key |-> k, val |-> v]
WireMessages ==
    {<<>>, <<Item("a", 1)>>, <<Item("a", 2)>>, <<Item("a", 1), Item("f", 2)>>}

\* json.dumps(obj).encode("utf-8"): {"a": 1, "f": 2}
RECURSIVE dumps_items(_)
dumps_items(m) ==
    IF m = <<>> THEN <<>>
    ELSE <<QUOTE, Ord(m[1].key), QUOTE, COLON, SPACE, OrdDigit(m[1].val)>>
         \o (IF Len(m) > 1 THEN <<COMMA, SPACE>> ELSE <<>>)
         \o dumps_items(Tail(m))

json_dumps(m) == <<LBRACE>> \o dumps_items(m) \o <<RBRACE>>

\* The result of json.loads: a value, or JSONDecodeError.
Decoded(v) == [ok |-> TRUE, val |-> v]
JSONDecodeError == [ok |-> FALSE, val |-> <<>>]

\* Whitespace between tokens is skipped.
RECURSIVE skip(_)
skip(b) == IF b # <<>> /\ b[1] = SPACE THEN skip(Tail(b)) ELSE b

Chr(c) == IF c = 97 THEN "a" ELSE IF c = 102 THEN "f" ELSE "z"

\* The items of an object after its opening brace: "k": d, then a comma and
\* more items, or the closing brace and the end of the text.
RECURSIVE loads_items(_, _)
loads_items(b0, acc) ==
    LET b == skip(b0)
    IN  IF Len(b) < 4 \/ b[1] # QUOTE \/ b[2] \notin {97, 102, 122} \/ b[3] # QUOTE
        THEN JSONDecodeError
        ELSE LET c == skip(SubSeq(b, 4, Len(b)))
             IN  IF c = <<>> \/ c[1] # COLON THEN JSONDecodeError
                 ELSE LET d == skip(Tail(c))
                      IN  IF d = <<>> \/ d[1] \notin 48..57 THEN JSONDecodeError
                          ELSE LET e == skip(Tail(d))
                                   got == Append(acc, Item(Chr(b[2]), d[1] - 48))
                               IN  IF e = <<>> THEN JSONDecodeError
                                   ELSE IF e[1] = RBRACE
                                        THEN IF skip(Tail(e)) = <<>> THEN Decoded(got)
                                             ELSE JSONDecodeError
                                        ELSE IF e[1] = COMMA THEN loads_items(Tail(e), got)
                                        ELSE JSONDecodeError

\* json.loads(data.decode("utf-8")) on the text of an object.
json_loads(b0) ==
    LET b == skip(b0)
    IN  IF b = <<>> \/ b[1] # LBRACE THEN JSONDecodeError
        ELSE LET c == skip(Tail(b))
             IN  IF c # <<>> /\ c[1] = RBRACE
                 THEN IF skip(Tail(c)) = <<>> THEN Decoded(<<>>) ELSE JSONDecodeError
                 ELSE loads_items(c, <<>>)

\* struct.pack("!I", n): four bytes, the most significant first.
pack_I(n) == <<(n \div 16777216) % 256, (n \div 65536) % 256, (n \div 256) % 256, n % 256>>

\* struct.unpack("!I", raw) of four bytes.
unpack_I(raw) == raw[1] * 16777216 + raw[2] * 65536 + raw[3] * 256 + raw[4]

\* send_json (109-112): what it puts on the stream.
send_json(m) == pack_I(Len(json_dumps(m))) \o json_dumps(m)

\* A recvall that returns what the first recv() gave.
recvall_first(buf, n, chunk) == TRUE

\* recvall (122-129): the loop ends when n bytes are there or recv() gave
\* nothing.
recvall_ends(buf, n, chunk) == Len(buf) >= n \/ chunk = <<>>

\* Largest number of frames put on one stream.
MaxFrames == 2

\* The stream of one direction: sent, the messages written to it; stream,
\* the bytes under way; eof, the writer's end is closed; cut, it was closed
\* inside a frame. The reader: phase of recv_json, buf of recvall, length
\* unpacked, got, the messages returned; raised, what ended it; split, some
\* recv() gave less than was asked for.
NewWire ==
    [pc |-> "run", sent |-> <<>>, stream |-> <<>>, eof |-> FALSE, cut |-> FALSE,
     phase |-> "prefix", buf |-> <<>>, length |-> 0, got |-> <<>>, raised |-> "none",
     split |-> FALSE]

\* sendall of one whole frame.
WireSend(m) ==
    /\ wire.pc = "run" /\ ~wire.eof /\ Len(wire.sent) < MaxFrames
    /\ wire' = [wire EXCEPT !.sent = Append(@, m), !.stream = @ \o send_json(m)]
    /\ UNCHANGED <<sock, index, folder_class, folder_override, lfs, hfs, plan, ret, conn, hpc,
                   hqueue, sync, clean, srv, gui, workers>>

\* The connection is lost inside a frame: its first n bytes arrive.
WireSendCut(m, n) ==
    /\ wire.pc = "run" /\ ~wire.eof /\ Len(wire.sent) < MaxFrames
    /\ n \in 1..(Len(send_json(m)) - 1)
    /\ wire' = [wire EXCEPT !.stream = @ \o SubSeq(send_json(m), 1, n),
                            !.eof = TRUE, !.cut = TRUE]
    /\ UNCHANGED <<sock, index, folder_class, folder_override, lfs, hfs, plan, ret, conn, hpc,
                   hqueue, sync, clean, srv, gui, workers>>

\* The writer closes after whole frames.
WireClose ==
    /\ wire.pc = "run" /\ ~wire.eof
    /\ wire' = [wire EXCEPT !.eof = TRUE]
    /\ UNCHANGED <<sock, index, folder_class, folder_override, lfs, hfs, plan, ret, conn, hpc,
                   hqueue, sync, clean, srv, gui, workers>>

\* recv_json (114-120) after recvall returned data for the phase it is in.
recv_json_step(w, data) ==
    IF w.phase = "prefix"
    THEN IF data = <<>> THEN [w EXCEPT !.phase = "raised", !.raised = "ConnectionError"]
         ELSE IF Len(data) # 4 THEN [w EXCEPT !.phase = "raised", !.raised = "struct.error"]
         ELSE [w EXCEPT !.phase = "payload", !.length = unpack_I(data), !.buf = <<>>]
    ELSE IF json_loads(data).ok
         THEN [w EXCEPT !.phase = "prefix", !.buf = <<>>, !.length = 0,
                        !.got = Append(@, json_loads(data).val)]
         ELSE [w EXCEPT !.phase = "raised", !.raised = "JSONDecodeError"]

\* One sock.recv(n - len(buf)) inside recvall: k bytes of those under way,
\* or none at the end of the stream.
WireRecv(k) ==
    /\ wire.pc = "run" /\ wire.phase \in {"prefix", "payload"}
    /\ LET n == IF wire.phase = "prefix" THEN 4 ELSE wire.length
           asked == n - Len(wire.buf)
           chunk == SubSeq(wire.stream, 1, k)
           buf == wire.buf \o chunk
           w == [wire EXCEPT !.stream = SubSeq(@, k + 1, Len(@)), !.buf = buf,
                             !.split = @ \/ (k > 0 /\ k < asked)]
       IN  /\ IF wire.stream = <<>> THEN k = 0 /\ wire.eof
              ELSE k >= 1 /\ k <= asked /\ k <= Len(wire.stream)
           /\ wire' = IF recvall_ends(buf, n, chunk) THEN recv_json_step(w, buf) ELSE w
    /\ UNCHANGED <<sock, index, folder_class, folder_override, lfs, hfs, plan, ret, conn, hpc,
                   hqueue, sync, clean, srv, gui, workers>>

\* The longest frame, for the sizes a recv() may give.
MaxFrameLen == 4 + 18

InitWire ==
    /\ sock = "none"
    /\ index = <<>>
    /\ folder_class = NoOverride
    /\ folder_override = NoOverride
    /\ lfs = [p \in LocalPaths |-> IF Len(p) = 1 THEN DirNode ELSE NoNode]
    /\ hfs = ServedTree
    /\ plan = <<>>
    /\ ret = Void
    /\ conn = [NewConn EXCEPT !.up = FALSE]
    /\ hpc = "none"
    /\ hqueue = <<>>
    /\ sync = NoSync
    /\ clean = FALSE
    /\ srv = NoServer
    /\ wire = NewWire
    /\ gui = NewApp
    /\ workers = NoWorkers

NextWire ==
    \/ \E m \in WireMessages : WireSend(m)
    \/ \E m \in WireMessages : \E n \in 1..MaxFrameLen : WireSendCut(m, n)
    \/ WireClose
    \/ \E k \in 0..MaxFrameLen : WireRecv(k)

SpecWire == InitWire /\ [][NextWire]_vars

IsPrefix(a, b) == Len(a) <= Len(b) /\ a = SubSeq(b, 1, Len(a))

\* C15: on a stream that carries whole frames, whatever the sizes of the
\* reads, recv_json returns the messages sent, equal and in order: what it
\* has returned is always the start of what was sent, it fails only at the
\* end of the stream and with all of it returned, and with nothing left
\* to read it has returned all.
C15_RoundTrip ==
    ~wire.cut /\ wire.pc = "run" =>
        /\ IsPrefix(wire.got, wire.sent)
        /\ wire.raised # "none" =>
              wire.raised = "ConnectionError" /\ wire.eof /\ wire.got = wire.sent
        /\ wire.stream = <<>> /\ wire.buf = <<>> /\ wire.phase = "prefix" =>
              wire.got = wire.sent

\* Two different messages were sent, read in pieces, and both returned.
C15_Witness ==
    /\ wire.pc = "run" /\ ~wire.cut /\ wire.split
    /\ Len(wire.got) = 2 /\ wire.got = wire.sent /\ wire.got[1] # wire.got[2]
    /\ Len(wire.got[2]) = 2

\* C16: when the stream ends before a whole prefix or payload was read,
\* recv_json fails with the connection-closed error, and it never returns a
\* message made from fewer bytes than the prefix declared.
C16_ConnectionClosedError ==
    wire.pc = "run" =>
        /\ IsPrefix(wire.got, wire.sent)
        /\ wire.raised # "none" => wire.raised = "ConnectionError"

\* What holds of recv_json on a stream cut inside a frame: it returns no
\* message of the cut frame, and ends with one of three exceptions.
WireCutNeverReturned ==
    wire.pc = "run" =>
        /\ IsPrefix(wire.got, wire.sent)
        /\ wire.raised \in {"none", "ConnectionError", "struct.error", "JSONDecodeError"}
        /\ wire.raised \in {"struct.error", "JSONDecodeError"} => wire.cut

\* ------------------------------------------------------------------------
\* Claims on recv_file and on the statistics of a call
\* ------------------------------------------------------------------------

\* The next thing synchronize reads is a FILE message of the index followed
\* by a file whose 8-byte size arrived whole and whose bytes did not all
\* arrive.
ShortFileAhead ==
    /\ sync.pc = "recv" /\ Len(conn.s2c) >= 2
    /\ conn.s2c[1].k = "json" /\ conn.s2c[1].whole
    /\ conn.s2c[1].msg.action = "FILE"
    /\ index_has(index, <<conn.s2c[1].msg.rel_folder>> \o conn.s2c[1].msg.name)
    /\ conn.s2c[2].k = "file" /\ conn.s2c[2].hdr
    /\ Len(conn.s2c[2].data) < conn.s2c[2].size

\* Where synchronize has recv_file write the file announced next.
TargetAhead ==
    LET msg == conn.s2c[1].msg
        key == <<msg.rel_folder>> \o msg.name
    IN  build_client_target(index_get(index, key),
                            IF key \in DOMAIN sync.dest_by_key THEN sync.dest_by_key[key]
                            ELSE get_folder_target(folder_override, folder_class,
                                                   msg.rel_folder))

\* The target can be written: no regular file is in the way of its
\* directories, and it is no directory itself.
Writable(fs, dest) ==
    /\ \A j \in 1..(Len(dest) - 1) : ~is_file(fs, SubSeq(dest, 1, j))
    /\ ~is_dir(fs, dest)

\* The statement of the claim as it stands: every call of recv_file that
\* returned has returned the number of bytes it wrote.
C17_ReturnsBytesWritten ==
    \A i \in 1..Len(sync.got) : sync.got[i].returned = IntValue(Len(sync.got[i].data))

\* C17: recv_file returns nothing (None), whatever it wrote; when the stream
\* closes after the 8-byte size and before the declared number of bytes has
\* arrived, it raises no error and leaves a file that holds the bytes
\* received, fewer than declared: the call of synchronize goes on.
C17_ShortFileNoError ==
    [][/\ \A i \in 1..Len(sync'.got) : sync'.got[i].returned = NoneValue
       /\ (ShortFileAhead /\ Writable(lfs, TargetAhead) /\ sync' # sync) =>
             /\ sync'.pc = "recv"
             /\ Len(sync'.got) = Len(sync.got) + 1
             /\ sync'.got[Len(sync'.got)].data = conn.s2c[2].data
             /\ Len(sync'.got[Len(sync'.got)].data) < sync'.got[Len(sync'.got)].size
             /\ NodeAt(lfs', TargetAhead) = FileNode(conn.s2c[2].data, 1)]_vars

\* recv_file returned after writing fewer bytes than were declared, and the
\* file holds them.
C17_Witness ==
    /\ sync.pc = "recv" /\ sync.got # <<>>
    /\ LET g == sync.got[Len(sync.got)]
       IN  /\ g.size = 2 /\ Len(g.data) = 1
           /\ g.returned = NoneValue
           /\ NodeAt(lfs, g.target) = FileNode(g.data, 1)

\* C18: when a call that requested n >= 1 files has got one FILE for each
\* entry requested and then DONE, the statistics it returns have
\* to_transfer = n, transferred_files = n and assets_files + mods_files = n,
\* and progress_cb was called n times, with (1, n), (2, n), ..., (n, n) in
\* that order.
C18_CountsAndProgress ==
    (/\ ret.op = "synchronize" /\ sync.outcome = "done"
     /\ Len(sync.sent) = 1 /\ Len(sync.sent[1].files) >= 1
     /\ Len(sync.got) = Len(sync.sent[1].files)
     /\ {sync.got[i].key : i \in 1..Len(sync.got)} = RequestedKeys(sync.sent))
    => LET n == Len(sync.sent[1].files)
       IN  /\ ret.value.to_transfer = n
           /\ ret.value.transferred_files = n
           /\ ret.value.assets_files + ret.value.mods_files = n
           /\ sync.progress = [i \in 1..n |-> <<i, n>>]

\* A call that requested two files got both, then DONE.
C18_Witness ==
    /\ ret.op = "synchronize" /\ sync.outcome = "done"
    /\ Len(sync.sent) = 1 /\ Len(sync.sent[1].files) = 2
    /\ Len(sync.got) = 2
    /\ sync.progress = <<<<1, 2>>, <<2, 2>>>>

\* ------------------------------------------------------------------------
\* client.py: delete_local (327-401)
\* ------------------------------------------------------------------------

\* The paths below the two roots that delete_local is run on: folder "1"
\* with a file and a subdirectory that holds a file, under either root;
\* folder "2" under mods_path; a directory that is not numeric.
DeletePaths ==
    {<<r>> : r \in Roots}
    \cup UNION {{<<r, "1">>, <<r, "1", "a.crp">>, <<r, "1", "sub">>,
                 <<r, "1", "sub", "d.crp">>} : r \in Roots}
    \cup {<<mods_path, "2">>, <<assets_path, "x">>, <<assets_path, "x", "a.crp">>}

\* p lies beneath d.
Beneath(p, d) == Len(p) > Len(d) /\ SubSeq(p, 1, Len(d)) = d

\* A tree: the roots are directories, <root>/<id> is a directory, a regular
\* file or absent, files have one byte, and what exists lies in a directory.
DeleteTrees ==
    {fs \in [DeletePaths -> {NoNode, DirNode, FileNode(<<1>>, 1)}] :
        /\ \A r \in Roots : fs[<<r>>] = DirNode
        /\ \A q \in DeletePaths :
              /\ Len(q) > 1 /\ fs[q].t # "none" => fs[Parent(q)].t = "dir"
              /\ fs[q].t = "file" => q[Len(q)] \notin {"sub", "2", "x"}
              /\ Len(q) > 1 /\ fs[q].t = "dir" => q[Len(q)] \in {"1", "sub", "2", "x"}}

\* The keys passed, split at "/": with and without the prefix, for a folder
\* and for a file, with an ID that is numeric and one that is not.
DeleteKeys ==
    {<<"(delete)", "1">>, <<"1">>, <<"(delete)", "1", "a.crp">>, <<"1", "sub", "d.crp">>,
     <<"(delete)", "2">>, <<"x">>, <<"(delete)", "x", "a.crp">>}

\* Largest number of keys in one call.
MaxKeys == 2

\* The items whose unlink() or rmdir() the system may refuse.
Deniable ==
    {<<assets_path, "1", "a.crp">>, <<assets_path, "1">>, <<mods_path, "1", "sub", "d.crp">>}

\* The normalisation (341-359): k.startswith("(delete)/") drops the prefix;
\* what is left with a "/" is a file target if its ID is numeric and the
\* rest not empty, without a "/" a folder ID if it is numeric.
Unprefixed(k) == IF Len(k) >= 2 /\ k[1] = "(delete)" THEN Tail(k) ELSE k

IsFileTarget(k) ==
    LET t == Unprefixed(k)
    IN  Len(t) >= 2 /\ isdigit(t[1]) /\ Tail(t) # <<"">>

IsFolderId(k) ==
    LET t == Unprefixed(k)
    IN  Len(t) = 1 /\ isdigit(t[1])

norm_ids(keys) == {Unprefixed(keys[i])[1] : i \in {j \in 1..Len(keys) : IsFolderId(keys[j])}}

file_targets(keys) ==
    LET IsTarget(k) == IsFileTarget(k)
        kept == SelectSeq(keys, IsTarget)
    IN  [i \in 1..Len(kept) |-> Unprefixed(kept[i])]

\* sorted(norm_ids) on the IDs of the universe.
sorted_ids(ids) ==
    LET In(g) == g \in ids
    IN  SelectSeq(<<"0", "1", "2", "9">>, In)

\* The locals of a call: the tree, the two counters, and whether an
\* exception has left the function.
DeleteState(fs) == [fs |-> fs, files |-> 0, folders |-> 0, raised |-> FALSE]

\* An unlink() that fails ends the call with its exception.
unlink_failed_raises(st) == [st EXCEPT !.raised = TRUE]

\* except Exception: log.exception(...) (373-374, 394-395)
unlink_failed(st) == st

\* try: f.unlink(); files_deleted += 1
try_unlink(st, f, denied) ==
    IF f \in denied THEN unlink_failed(st)
    ELSE [st EXCEPT !.fs[f] = NoNode, !.files = @ + 1]

\* for f in d.rglob("*"): if f.is_file(): ... over the files in todo, in
\* some order.
RECURSIVE unlink_all(_, _, _)
unlink_all(st, todo, denied) ==
    IF todo = {} \/ st.raised THEN st
    ELSE LET f == CHOOSE x \in todo : TRUE
         IN  unlink_all(try_unlink(st, f, denied), todo \ {f}, denied)

\* try: d.rmdir(); folders_deleted += 1; except Exception: pass (375-381).
\* rmdir fails on a directory that is not empty.
try_rmdir(st, d, denied) ==
    IF d \in denied \/ \E q \in DOMAIN st.fs : Beneath(q, d) /\ st.fs[q].t # "none"
    THEN st
    ELSE [st EXCEPT !.fs[d] = NoNode, !.folders = @ + 1]

\* One round of the inner loop of phase 1 (364-381) for d = base / gid.
delete_folder(st, d, denied) ==
    IF st.raised \/ ~is_dir(st.fs, d) THEN st
    ELSE LET files == {q \in DOMAIN st.fs : Beneath(q, d) /\ is_file(st.fs, q)}
             after == unlink_all(st, files, denied)
         IN  IF after.raised THEN after ELSE try_rmdir(after, d, denied)

\* Phase 1 that looks below assets_path alone.
RECURSIVE delete_folders_assets_only(_, _, _)
delete_folders_assets_only(st, ids, denied) ==
    IF ids = <<>> THEN st
    ELSE delete_folders_assets_only(delete_folder(st, <<assets_path, Head(ids)>>, denied),
                                    Tail(ids), denied)

\* Phase 1 (362-381): for gid in sorted(norm_ids): for base in [assets, mods].
RECURSIVE delete_folders(_, _, _)
delete_folders(st, ids, denied) ==
    IF ids = <<>> THEN st
    ELSE delete_folders(
             delete_folder(delete_folder(st, <<assets_path, Head(ids)>>, denied),
                           <<mods_path, Head(ids)>>, denied),
             Tail(ids), denied)

\* Phase 2 (384-397) for one target: the first base where the path is a
\* regular file whose unlink succeeds, then break.
delete_file(st, t, denied) ==
    LET pa == <<assets_path>> \o t
        pm == <<mods_path>> \o t
        a == IF is_file(st.fs, pa) THEN try_unlink(st, pa, denied) ELSE st
    IN  IF st.raised THEN st
        ELSE IF a.raised \/ a.files > st.files THEN a
        ELSE IF is_file(a.fs, pm) THEN try_unlink(a, pm, denied) ELSE a

RECURSIVE delete_files(_, _, _)
delete_files(st, targets, denied) ==
    IF targets = <<>> THEN st
    ELSE delete_files(delete_file(st, Head(targets), denied), Tail(targets), denied)

\* delete_local(delete_keys) on the tree fs, the system refusing the
\* removals of denied.
delete_local(fs, keys, denied) ==
    delete_files(delete_folders(DeleteState(fs), sorted_ids(norm_ids(keys)), denied),
                 file_targets(keys), denied)

\* A call of delete_local. Every tree is a start, so the call stands for
\* any call of a run; its arguments are kept with its result.
DeleteLocal(keys, denied) ==
    /\ ret = Void
    /\ LET r == delete_local(lfs, keys, denied)
       IN  /\ lfs' = r.fs
           /\ ret' = Returned("delete_local", r.raised,
                              [result |-> <<r.files, r.folders>>, delete_keys |-> keys,
                               denied |-> denied, before |-> lfs])
    /\ UNCHANGED <<sock, index, folder_class, folder_override, hfs, plan, netvars>>

KeyLists == UNION {[1..n -> DeleteKeys] : n \in 0..MaxKeys}

InitDelete ==
    /\ sock = "none"
    /\ index = <<>>
    /\ folder_class = NoOverride
    /\ folder_override = NoOverride
    /\ lfs \in DeleteTrees
    /\ hfs = ServedTree
    /\ plan = <<>>
    /\ ret = Void
    /\ conn = [NewConn EXCEPT !.up = FALSE]
    /\ hpc = "none"
    /\ hqueue = <<>>
    /\ sync = NoSync
    /\ clean = FALSE
    /\ srv = NoServer
    /\ wire = NoWire
    /\ gui = NewApp
    /\ workers = NoWorkers

NextDelete ==
    \E keys \in KeyLists : \E denied \in {{}} \cup {{q} : q \in Deniable} :
        DeleteLocal(keys, denied)

SpecDelete == InitDelete /\ [][NextDelete]_vars

\* The call that has returned, its arguments and the tree it started on.
Deleted == ret.op = "delete_local"
Before == ret.value.before
Removed(kind) == {q \in DeletePaths : Before[q].t = kind /\ lfs[q].t = "none"}

\* Key k names path q: q is the folder of its ID under a root or lies
\* beneath it, or q is the file it names under a root.
Names(k, q) ==
    \/ /\ IsFolderId(k)
       /\ \E r \in Roots : q = <<r, Unprefixed(k)[1]>> \/ Beneath(q, <<r, Unprefixed(k)[1]>>)
    \/ /\ IsFileTarget(k)
       /\ \E r \in Roots : q = <<r>> \o Unprefixed(k)

\* C19: delete_local does not raise, whatever the keys and whichever
\* removal the system refuses. It changes nothing but by removing what a key
\* with a numeric folder ID names. A refused or missing item does not stop
\* the rest: after the call no file beneath a folder named by a key is left
\* but those refused, and a file key leaves a removable file behind only if a
\* file was removed for it. The pair returned is the number of files and the
\* number of directories that are gone.
C19_DeleteLocalTotal ==
    Deleted =>
        LET keys == ret.value.delete_keys
            denied == ret.value.denied
        IN  /\ ~ret.raised
            /\ \A q \in DeletePaths :
                  lfs[q] # Before[q] =>
                      lfs[q] = NoNode /\ \E i \in 1..Len(keys) : Names(keys[i], q)
            /\ \A i \in 1..Len(keys) :
                  /\ IsFolderId(keys[i]) =>
                        \A r \in Roots : \A q \in DeletePaths :
                            (/\ is_dir(Before, <<r, Unprefixed(keys[i])[1]>>)
                             /\ Beneath(q, <<r, Unprefixed(keys[i])[1]>>)
                             /\ is_file(Before, q) /\ q \notin denied)
                            => lfs[q] = NoNode
                  /\ IsFileTarget(keys[i]) =>
                        ((\E r \in Roots : /\ is_file(lfs, <<r>> \o Unprefixed(keys[i]))
                                           /\ <<r>> \o Unprefixed(keys[i]) \notin denied)
                         => \E r \in Roots : <<r>> \o Unprefixed(keys[i]) \in Removed("file"))
            /\ ret.value.result = <<Cardinality(Removed("file")), Cardinality(Removed("dir"))>>

\* A call of two keys: the removal of the first key's file was refused, the
\* second key's file is gone and counted.
C19_Witness ==
    /\ Deleted
    /\ ret.value.delete_keys = <<<<"(delete)", "1", "a.crp">>, <<"1", "sub", "d.crp">>>>
    /\ ret.value.denied = {<<assets_path, "1", "a.crp">>}
    /\ is_file(lfs, <<assets_path, "1", "a.crp">>)
    /\ <<assets_path, "1", "sub", "d.crp">> \in Removed("file")
    /\ <<mods_path, "1", "a.crp">> \in Removed("file")
    /\ ret.value.result = <<2, 0>>

\* The call was made with the one key k, a whole-folder key.
OneFolderKey == Deleted /\ Len(ret.value.delete_keys) = 1 /\ IsFolderId(ret.value.delete_keys[1])
FolderOf(r) == <<r, Unprefixed(ret.value.delete_keys[1])[1]>>
FilesBeneath(r) == {q \in DeletePaths : Beneath(q, FolderOf(r)) /\ is_file(Before, q)}
SubdirsBeneath(r) == {q \in DeletePaths : Beneath(q, FolderOf(r)) /\ is_dir(Before, q)}
WasFolder(r) == is_dir(Before, FolderOf(r))
FolderRoots == {r \in Roots : WasFolder(r)}
AllUnlinked == \A r \in FolderRoots : FilesBeneath(r) \cap ret.value.denied = {}

\* The statement of the claim as it stands: a whole-folder key whose file
\* deletions all succeed leaves no <root>/g behind and gives (files that
\* were beneath g, roots under which g was a folder).
C20_FolderGone ==
    (OneFolderKey /\ AllUnlinked) =>
        /\ \A r \in FolderRoots : lfs[FolderOf(r)] = NoNode
        /\ ret.value.result =
              <<Cardinality(UNION {FilesBeneath(r) : r \in FolderRoots}),
                Cardinality(FolderRoots)>>

\* C20: a whole-folder key for g removes every regular file beneath
\* <root>/g under assets_path and under mods_path, but those whose removal
\* is refused, and then tries to remove the directory; when every file
\* deletion succeeds, g holds no subdirectory under either root and the
\* removal of the directory is not refused, <root>/g is gone under both roots
\* and the result is (files that were beneath g under both roots, roots under
\* which g was a directory).
C20_FlatFolderGone ==
    OneFolderKey =>
        /\ \A r \in FolderRoots :
              \A q \in FilesBeneath(r) : q \notin ret.value.denied => lfs[q] = NoNode
        /\ (/\ AllUnlinked
            /\ \A r \in FolderRoots :
                  SubdirsBeneath(r) = {} /\ FolderOf(r) \notin ret.value.denied)
           => /\ \A r \in FolderRoots : lfs[FolderOf(r)] = NoNode
              /\ ret.value.result =
                    <<Cardinality(UNION {FilesBeneath(r) : r \in FolderRoots}),
                      Cardinality(FolderRoots)>>

\* Folder 1 held one file under each root and no subdirectory: both
\* directories are gone, the result is (2, 2).
C20_Witness ==
    /\ OneFolderKey /\ ret.value.delete_keys = <<<<"(delete)", "1">>>>
    /\ FolderRoots = Roots
    /\ \A r \in Roots : SubdirsBeneath(r) = {} /\ Cardinality(FilesBeneath(r)) = 1
    /\ \A r \in Roots : lfs[<<r, "1">>] = NoNode
    /\ ret.value.result = <<2, 2>>

\* The call was made with the one key, a single-file key; its target under
\* root r.
OneFileKey == Deleted /\ Len(ret.value.delete_keys) = 1 /\ IsFileTarget(ret.value.delete_keys[1])
TargetUnder(r) == <<r>> \o Unprefixed(ret.value.delete_keys[1])

\* What holds of a single-file key: at most one file is removed, it is the
\* key's file under a root, and nothing else changes.
OneFileKeyFrame ==
    OneFileKey =>
        /\ Cardinality(Removed("file")) <= 1
        /\ \A q \in DeletePaths : lfs[q] # Before[q] => q \in Removed("file")
        /\ Removed("file") \subseteq {TargetUnder(r) : r \in Roots}

\* C21: a single-file key removes at most one file, the one below
\* assets_path when a regular file is there and else the one below
\* mods_path; every other file and every directory is left as it was.
C21_FirstFoundOnly ==
    OneFileKey =>
        /\ Cardinality(Removed("file")) <= 1
        /\ \A q \in DeletePaths : lfs[q] # Before[q] => q \in Removed("file")
        /\ Removed("file") \subseteq {TargetUnder(r) : r \in Roots}
        /\ is_file(Before, TargetUnder(assets_path)) =>
              Removed("file") \subseteq {TargetUnder(assets_path)}

\* ------------------------------------------------------------------------
\* utils.py: scan_workshop on any content root, with files that fail
\* ------------------------------------------------------------------------

\* The paths of the content roots scanned: a numbered folder with a file and
\* a subdirectory that holds a file, a second numbered name that is a folder
\* or a regular file, a folder that is not numbered, a file in the root.
ScanPaths ==
    {<<workshop_root>>,
     <<workshop_root, "1">>, <<workshop_root, "1", "a.crp">>,
     <<workshop_root, "1", "x">>, <<workshop_root, "1", "x", "b.dll">>,
     <<workshop_root, "2">>, <<workshop_root, "2", "c.txt">>,
     <<workshop_root, "x">>, <<workshop_root, "x", "a.crp">>,
     <<workshop_root, "c.txt">>}

\* The trees over them: the root may be missing; what exists lies in a
\* directory; names with a suffix are files, "1" and "x" directories.
ScanTrees ==
    {fs \in [ScanPaths -> {NoNode, DirNode, FileNode(<<1>>, 1), FileNode(<<1, 2>>, 2)}] :
        /\ fs[<<workshop_root>>].t # "file"
        /\ \A q \in ScanPaths :
              /\ Len(q) > 1 /\ fs[q].t # "none" => fs[Parent(q)].t = "dir"
              /\ fs[q].t = "file" => q[Len(q)] \notin {"1", "x"}
              /\ fs[q].t = "dir" => q[Len(q)] \in {workshop_root, "1", "2", "x"}
              /\ fs[q].data = <<1, 2>> => q[Len(q)] = "a.crp"}

\* The files the scan visits (46-51), in listing order: below each numbered
\* directory of the root, at any depth.
scan_order(fs) ==
    LET subs == OrderedBy({p \in DOMAIN fs : Len(p) = 2 /\ is_numbered_dir(fs, p)},
                          LAMBDA p : p[2], 1)
        filesOf(sub) ==
            OrderedBy({p \in DOMAIN fs : Len(p) > 2 /\ SubSeq(p, 1, 2) = sub /\ is_file(fs, p)},
                      LAMBDA p : p[Len(p)], 1)
    IN  Concat([i \in 1..Len(subs) |-> filesOf(subs[i])])

\* The body of the loop for the files of todo (59-73): stat() raises
\* FileNotFoundError for a file that is gone since is_file(), which nothing
\* catches; sha256_of_file raises PermissionError for a file that cannot be
\* opened, which is caught and logged.
RECURSIVE scan_files(_, _, _, _, _)
scan_files(fs, todo, denied, gone, acc) ==
    IF todo = <<>> THEN [raised |-> FALSE, entries |-> acc]
    ELSE LET fp == Head(todo)
         IN  IF fp \in gone THEN [raised |-> TRUE, entries |-> <<>>]
             ELSE IF fp \in denied THEN scan_files(fs, Tail(todo), denied, gone, acc)
             ELSE scan_files(fs, Tail(todo), denied, gone,
                             Append(acc, FileEntry(fp[2], SubSeq(fp, 3, Len(fp)),
                                                   st_size(fs, fp), fs[fp].mtime,
                                                   sha256_of_file(fs, fp), KindOf(fp))))

\* scan_workshop (36-75) with the files that fail.
scan_workshop_with(fs, denied, gone) ==
    IF ~exists(fs, <<workshop_root>>) THEN [raised |-> FALSE, entries |-> <<>>]
    ELSE scan_files(fs, scan_order(fs), denied, gone, <<>>)

\* The dict comprehension of build_index (8-17): one value for each key, at
\* the place of the key's first entry, the last entry with the key winning.
grouped(entries) ==
    LET keys == Distinct([i \in 1..Len(entries) |-> KeyOf(entries[i])])
        last(k) == CHOOSE i \in 1..Len(entries) :
                      /\ KeyOf(entries[i]) = k
                      /\ \A j \in (i + 1)..Len(entries) : KeyOf(entries[j]) # k
    IN  [n \in 1..Len(keys) |-> entries[last(keys[n])]]

\* _handle_client (51-52): build_index on the tree; an exception of the scan
\* ends the handler before anything is sent.
BuildIndex(denied, gone) ==
    /\ ret = Void
    /\ LET r == scan_workshop_with(hfs, denied, gone)
       IN  ret' = Returned("build_index", r.raised,
                           [sent |-> IF r.raised THEN <<>>
                                     ELSE <<[action |-> "INDEX", entries |-> grouped(r.entries)]>>,
                            denied |-> denied, gone |-> gone])
    /\ UNCHANGED <<sock, index, folder_class, folder_override, lfs, hfs, plan, netvars>>

\* The files that may fail: one with each extension.
Failing == {<<workshop_root, "1", "a.crp">>, <<workshop_root, "1", "x", "b.dll">>}

InitScan ==
    /\ sock = "none"
    /\ index = <<>>
    /\ folder_class = NoOverride
    /\ folder_override = NoOverride
    /\ lfs = [p \in LocalPaths |-> IF Len(p) = 1 THEN DirNode ELSE NoNode]
    /\ hfs \in ScanTrees
    /\ plan = <<>>
    /\ ret = Void
    /\ conn = [NewConn EXCEPT !.up = FALSE]
    /\ hpc = "none"
    /\ hqueue = <<>>
    /\ sync = NoSync
    /\ clean = FALSE
    /\ srv = NoServer
    /\ wire = NoWire
    /\ gui = NewApp
    /\ workers = NoWorkers

NextScan ==
    \E denied \in SUBSET Failing : \E gone \in SUBSET Failing :
        gone \cap denied = {} /\ BuildIndex(denied, gone)

SpecScan == InitScan /\ [][NextScan]_vars

\* The regular files a manifest is to list: beneath a directory of the root
\* whose name is all digits.
Listed(fs) ==
    {q \in ScanPaths : /\ Len(q) > 2 /\ is_file(fs, q)
                       /\ isdigit(q[2]) /\ is_dir(fs, <<workshop_root, q[2]>>)}

Scanned == ret.op = "build_index"

\* C22: a scan on which no file fails does not raise, and the manifest it
\* gives holds exactly one entry for each regular file at any depth beneath
\* a directory of the root named in digits, under the key folder ID and
\* relative path, no key twice; a file in the root or beneath another
\* directory is not in it, and a root that is missing gives no entry.
C22_ManifestExact ==
    (Scanned /\ ret.value.denied = {} /\ ret.value.gone = {}) =>
        /\ ~ret.raised /\ Len(ret.value.sent) = 1
        /\ LET es == ret.value.sent[1].entries
           IN  /\ {KeyOf(es[i]) : i \in 1..Len(es)}
                     = {<<q[2]>> \o SubSeq(q, 3, Len(q)) : q \in Listed(hfs)}
               /\ Len(es) = Cardinality(Listed(hfs))
               /\ \A i \in 1..Len(es) :
                     /\ es[i].name # <<>>
                     /\ es[i].size = Len(hfs[<<workshop_root, es[i].rel_folder>> \o es[i].name].data)
               /\ ~exists(hfs, <<workshop_root>>) => es = <<>>

\* A root with a file of its own, a file beneath a name that is no number,
\* and two files under folder 1, one of them a level down: two entries.
C22_Witness ==
    /\ Scanned /\ ret.value.denied = {} /\ ret.value.gone = {}
    /\ is_file(hfs, <<workshop_root, "c.txt">>) /\ is_file(hfs, <<workshop_root, "x", "a.crp">>)
    /\ is_file(hfs, <<workshop_root, "2">>)
    /\ Len(ret.value.sent) = 1 /\ Len(ret.value.sent[1].entries) = 2
    /\ ret.value.sent[1].entries[2].name = <<"x", "b.dll">>

\* What holds of a file that cannot be opened: it is left out, and the
\* files that can be read are all in the manifest.
PermissionSkipped ==
    (Scanned /\ ret.value.gone = {}) =>
        /\ ~ret.raised /\ Len(ret.value.sent) = 1
        /\ {KeyOf(ret.value.sent[1].entries[i]) : i \in 1..Len(ret.value.sent[1].entries)}
              = {<<q[2]>> \o SubSeq(q, 3, Len(q)) : q \in Listed(hfs) \ ret.value.denied}

\* C23: a file that fails during the scan, for want of permission or
\* because it is gone since it was listed, does not end the scan and raises
\* nothing: the manifest is sent, without that file and with every other.
C23_ScanSurvivesFileErrors ==
    Scanned =>
        /\ ~ret.raised /\ Len(ret.value.sent) = 1
        /\ {KeyOf(ret.value.sent[1].entries[i]) : i \in 1..Len(ret.value.sent[1].entries)}
              = {<<q[2]>> \o SubSeq(q, 3, Len(q)) :
                    q \in Listed(hfs) \ (ret.value.denied \cup ret.value.gone)}

\* ------------------------------------------------------------------------
\* Overrides across connections (client.py 39-53, 72-102, 189-191)
\* ------------------------------------------------------------------------

\* The session as the window drives it (gui.py 311-336): an override is set
\* only while connected, for a folder that mixed_folders() returned, to one
\* of the two destinations of the prompt.
NextSession ==
    \/ \E h \in HostStates : ConnectOk(h)
    \/ ConnectFail
    \/ Close
    \/ /\ sock = "open"
       /\ \E gid \in Range(mixed_folders(folder_class)), dest \in {"assets", "mods"} :
             SetFolderOverride(gid, dest)
    \/ \E gid \in DirNames : GetFolderTarget(gid)
    \/ MixedFolders

SpecSession == InitClient /\ [][NextSession]_vars

\* A connect() that has just returned True.
Connected == ret.op = "connect" /\ ~ret.raised /\ ret.value = TRUE

\* What connect() does to the overrides: nothing.
ConnectKeepsOverrides ==
    [][(ret'.op = "connect") => folder_override' = folder_override]_vars

\* C24: after a connect that returned True no override of an earlier
\* connection is in effect: the target of every folder is the one its class
\* in the manifest just received gives.
C24_OverridesCleared ==
    Connected =>
        \A gid \in DirNames :
            get_folder_target(folder_override, folder_class, gid)
                = get_folder_target(NoOverride, classify_folders(index), gid)

MixedReturned == ret.op = "mixed_folders"

\* C25 as stated: mixed_folders() returns the folder IDs whose class is mixed
\* and that have no override.
C25_MixedWithoutOverride ==
    MixedReturned =>
        Range(ret.value) = {g \in DOMAIN folder_class :
                               folder_class[g] = "mixed" /\ g \notin DOMAIN folder_override}

\* C25: mixed_folders() returns exactly the folder IDs whose class is mixed,
\* each once, whether or not an override has been set for them.
C25_MixedFoldersAll ==
    MixedReturned =>
        /\ Range(ret.value) = {g \in DOMAIN folder_class : folder_class[g] = "mixed"}
        /\ Len(ret.value) = Cardinality(Range(ret.value))

\* A mixed folder that has an override is returned.
C25_Witness ==
    /\ MixedReturned
    /\ \E g \in DOMAIN folder_class \cap DOMAIN folder_override :
          folder_class[g] = "mixed" /\ ret.value = <<g>>

\* ------------------------------------------------------------------------
\* Selection expansion (client.py 202-237, 250-284)
\* ------------------------------------------------------------------------

\* _expand_selection_to_file_entries(selected_keys) on the client as it is,
\* with what synchronize makes of the pairs before it talks to the host:
\* selected_total and the files of the request.
ExpandSelection(sel) ==
    /\ sock = "open"
    /\ LET d == sync_decide(lfs, index, folder_override, folder_class, sel)
       IN  ret' = Returned("expand_selection", d.raised,
                           [selected_keys |-> sel,
                            entries |-> expand_selection(index, folder_override, folder_class, sel),
                            selected_total |-> d.stats.selected_total,
                            request_files |-> d.request_files])
    /\ UNCHANGED <<sock, index, folder_class, folder_override, lfs, hfs, plan, netvars>>

\* Any selection of keys of the plan, on any manifest, overrides and targets.
NextExpand ==
    \/ \E p \in SyncFilePaths : Setup /\ LocalWrite(p, <<1>>)
    \/ \E h \in SyncHostStates : Setup /\ ConnectOk(h)
    \/ \E gid \in GIDS, dest \in {"assets", "mods"} :
          sock = "open" /\ SetFolderOverride(gid, dest)
    \/ \E sel \in SUBSET SelKeys : ExpandSelection(sel)

SpecExpand == InitClient /\ [][NextExpand]_vars

Expanded == ret.op = "expand_selection"

\* The identity keys a selection stands for: the files of the manifest whose
\* folder ID is selected, and the files of the manifest selected themselves.
StandsFor(sel) ==
    {KeyOf(index[i]) : i \in {j \in 1..Len(index) :
                                 <<index[j].rel_folder>> \in sel \/ KeyOf(index[j]) \in sel}}

\* C26: the pairs of a selection are the manifest entries of the selected
\* folders and the selected files that are in the manifest, each with the
\* target of its folder, and no identity key twice; keys beneath (delete) and
\* keys the manifest does not hold add nothing; selected_total is the number
\* of these keys, and the request holds a key at most once.
C26_SelectionExpansion ==
    Expanded =>
        LET es == ret.value.entries
            rq == ret.value.request_files
        IN  /\ {KeyOf(es[i][2]) : i \in 1..Len(es)} = StandsFor(ret.value.selected_keys)
            /\ \A i, j \in 1..Len(es) : KeyOf(es[i][2]) = KeyOf(es[j][2]) => i = j
            /\ \A i \in 1..Len(es) :
                  /\ es[i][2] \in Range(index)
                  /\ es[i][1] = get_folder_target(folder_override, folder_class,
                                                  es[i][2].rel_folder)
            /\ ret.value.selected_total = Cardinality(StandsFor(ret.value.selected_keys))
            /\ \A i, j \in 1..Len(rq) : KeyOf(rq[i]) = KeyOf(rq[j]) => i = j
            /\ {KeyOf(rq[i]) : i \in 1..Len(rq)} \subseteq StandsFor(ret.value.selected_keys)

\* Folder 1 selected with one of its two files, a file the manifest does not
\* hold and a key beneath (delete): two pairs, both requested.
C26_Witness ==
    /\ Expanded /\ ~ret.raised
    /\ ret.value.selected_keys = SelKeys
    /\ Len(index) = 2
    /\ ret.value.selected_total = 2
    /\ Len(ret.value.request_files) = 2

\* ------------------------------------------------------------------------
\* A host that streams the requested files in another order
\* ------------------------------------------------------------------------

\* The host takes the i-th of the files still to send next.
HostReorders(i) ==
    /\ UNCHANGED auxvars
    /\ hpc = "send" /\ i \in 2..Len(hqueue)
    /\ hqueue' = <<hqueue[i]>> \o SubSeq(hqueue, 1, i - 1) \o SubSeq(hqueue, i + 1, Len(hqueue))
    /\ UNCHANGED <<sock, index, folder_class, folder_override, lfs, hfs, plan, ret, conn, hpc,
                   sync, clean>>

\* The client and its calls against such a host; nothing else changes the
\* two filesystems once the client is connected.
NextOrder ==
    \/ \E p \in SyncFilePaths : Setup /\ LocalWrite(p, <<1>>)
    \/ \E h \in SyncHostStates : Setup /\ ConnectOk(h)
    \/ \E gid \in GIDS : Setup /\ SetFolderOverride(gid, "mods")
    \/ \E sel \in Selections :
          sock = "open" /\ sync.pc = "idle" /\ sync.calls < MaxCalls /\ SyncStart(sel)
    \/ SyncRecv
    \/ HostRecv
    \/ \E i \in 2..MaxSelected : HostReorders(i)
    \/ HostSendFile
    \/ HostSendDone

SpecOrder == InitClient /\ [][NextOrder]_vars

\* C27: whatever the order of the files on the stream, the bytes that follow
\* a FILE header went to the target of the manifest entry with the key the
\* header names, under the root decided for that key, and are what is there.
C27_WrittenByKey ==
    \A n \in 1..Len(sync.got) :
        LET g == sync.got[n]
            e == index_get(index, g.key)
        IN  /\ index_has(index, g.key)
            /\ g.key \in DOMAIN sync.dest_by_key
            /\ g.target = build_client_target(e, sync.dest_by_key[g.key])
            /\ is_file(lfs, g.target)
            /\ lfs[g.target].data = g.data
            /\ g.data = hfs[<<workshop_root>> \o g.key].data

\* Two files requested, streamed second first, both written, then DONE.
C27_Witness ==
    /\ sync.outcome = "done" /\ Len(sync.got) = 2
    /\ Len(sync.sent) = 1 /\ Len(sync.sent[1].files) = 2
    /\ sync.got[1].key = KeyOf(sync.sent[1].files[2])
    /\ sync.got[2].key = KeyOf(sync.sent[1].files[1])
    /\ sync.got[1].target # sync.got[2].target

\* ------------------------------------------------------------------------
\* The client session (client.py 36-62, 240-324)
\* ------------------------------------------------------------------------

\* The trees of the hosts a session connects to: two files of two folders,
\* or the first of them alone.
LifeHostStates ==
    {HostFsOf([k \in HostKeys |->
                 IF k = <<workshop_root, "1", "a.crp">> THEN FileNode(<<1, 2>>, 2)
                 ELSE IF k = <<workshop_root, "2", "c.txt">> /\ both THEN FileNode(<<1>>, 2)
                 ELSE NoNode]) : both \in BOOLEAN}

\* The calls of a session in any order: connect() that succeeds or fails and
\* close() between two calls of synchronize, synchronize connected or not,
\* against the host of server.py on a connection that may end at any time.
NextLife ==
    \/ \E p \in SyncFilePaths : Setup /\ LocalWrite(p, <<1>>)
    \/ \E h \in LifeHostStates : sync.pc = "idle" /\ ConnectOk(h)
    \/ sync.pc = "idle" /\ ConnectFail
    \/ sync.pc = "idle" /\ Close
    \/ \E sel \in Selections : sync.pc = "idle" /\ sync.calls < MaxCalls /\ SyncStart(sel)
    \/ SyncRecv
    \/ HostRecv
    \/ HostSendFile
    \/ HostSendDone
    \/ \E how \in {"eof", "cut_hdr", "cut_data"} : Drop(how)

SpecLife == InitClient /\ [][NextLife]_vars

\* The call that returned last: no step of the host or of the network
\* changes ret, so what holds of the session while ret tells of a call holds
\* from that call's return to the next call.
Returns(op) == ret.op = op /\ ~ret.raised

\* C28: is_connected() is true from a connect() that returned True, which
\* leaves the folders of the manifest classified, and false from a close(),
\* a connect() that returned False or a connection lost in synchronize, in
\* each case until the next call; synchronize sends and receives only while
\* connected; and when it has returned no call is in progress and the
\* session is connected (DONE received, or nothing to request) or
\* disconnected (the connection lost, or none at the start).
C28_SessionStateMachine ==
    /\ Returns("connect") =>
           /\ (sock = "open") <=> (ret.value = TRUE)
           /\ ret.value = TRUE => folder_class = classify_folders(index)
    /\ Returns("void") => sock = "none"
    /\ sync.pc = "recv" => sock = "open" /\ Len(sync.sent) = 1
    /\ (sync.sent # <<>> \/ sync.got # <<>>) => sync.outcome # "notconnected"
    /\ Returns("synchronize") =>
           /\ sync.pc = "idle"
           /\ sync.outcome \in {"done", "nothing", "lost", "notconnected"}
           /\ (sock = "open") <=> (sync.outcome \in {"done", "nothing"})
           /\ sync.outcome = "done" => sync.sent # <<>>
           /\ sync.outcome = "nothing" => sync.sent = <<>>
    /\ sock = "open" =>
           \/ Returns("connect")
           \/ ret.op \in {"sync_send", "sync_recv"}
           \/ Returns("synchronize")

\* The second call of synchronize of a session lost its connection after a
\* file was received: the session is disconnected.
C28_Witness ==
    /\ Returns("synchronize") /\ sync.calls = 2
    /\ sync.outcome = "lost" /\ sync.got # <<>> /\ sock = "none"

\* ------------------------------------------------------------------------
\* The structure of a plan (client.py 105-151)
\* ------------------------------------------------------------------------

\* The positions of the folder-level items of a plan that are no DELETE
\* items and belong to folder ID gid.
FolderItemsOf(items, gid) ==
    {j \in 1..Len(items) : /\ items[j].level = "folder" /\ items[j].action # "DELETE"
                           /\ items[j].entry.rel_folder = gid}

AppMethods ==
    {"__init__", "_row_path", "_log_write", "_set_plan", "_do_ping", "_prompt_mixed_folders",
     "_connect", "_sync", "_delete", "_host_firewall_button", "_host_start", "_host_stop",
     "_save_settings", "_on_close"}

\* AutoReconnectManager.start (133-138): nothing when it runs already, else
\* one more thread in _run.
reconnector_start(r) ==
    IF r.running THEN r
    ELSE [r EXCEPT !.running = TRUE, !.stop = FALSE, !.threads = @ + 1]

\* AutoReconnectManager.stop (140-142)
reconnector_stop(r) == [r EXCEPT !.stop = TRUE, !.running = FALSE]

AppFrame ==
    UNCHANGED <<sock, index, folder_class, folder_override, lfs, hfs, plan, ret, conn, hpc,
                hqueue, sync, clean, srv, wire, workers>>

\* The callback of self.after(200, ...) (258): setattr(self.client,
\* "on_disconnect", self._on_disconnect). Its argument is evaluated first,
\* and for a method App does not define that raises AttributeError, which
\* the event loop reports: the client keeps the on_disconnect it has.
AppAfter ==
    /\ gui.window = "open" /\ gui.after = "scheduled"
    /\ gui' = [gui EXCEPT !.after = "ran",
                          !.on_disconnect = IF "_on_disconnect" \in AppMethods
                                            THEN "_on_disconnect" ELSE @]
    /\ AppFrame

\* App._connect (323-339), up to the start of its thread: the reconnector
\* is stopped. The thread's connect() is ConnectOk or ConnectFail.
AppConnect ==
    /\ gui.window = "open"
    /\ gui' = [gui EXCEPT !.reconnector = reconnector_stop(@)]
    /\ AppFrame

\* App._on_close (454-484): the reconnector is stopped, the window destroyed.
AppClose ==
    /\ gui.window = "open"
    /\ gui' = [gui EXCEPT !.reconnector = reconnector_stop(@), !.window = "closed"]
    /\ AppFrame

\* The window until it is closed: connect by the button, synchronize by the
\* button, the host of server.py and a connection that may end. The except
\* block of synchronize calls the client's on_disconnect, which is the
\* lambda of SyncClient.__init__ (client.py 28) as long as nothing replaced
\* it, and that does nothing.
NextApp ==
    \/ AppAfter
    \/ AppConnect
    \/ \E h \in LifeHostStates :
          /\ gui.window = "open" /\ gui.reconnector.stop /\ sync.pc = "idle"
          /\ ConnectOk(h)
    \/ gui.window = "open" /\ gui.reconnector.stop /\ sync.pc = "idle" /\ ConnectFail
    \/ \E sel \in Selections :
          /\ gui.window = "open" /\ sync.pc = "idle" /\ sync.calls < MaxCalls
          /\ ret.op \in {"connect", "synchronize"}
          /\ SyncStart(sel)
    \/ gui.window = "open" /\ SyncRecv
    \/ HostRecv
    \/ HostSendFile
    \/ HostSendDone
    \/ \E how \in {"eof", "cut_hdr", "cut_data"} : Drop(how)
    \/ AppClose

SpecApp == InitClient /\ [][NextApp]_vars

\* What holds instead: the client keeps its default on_disconnect, and the
\* reconnector is never started.
ReconnectorNeverStarted ==
    /\ gui.on_disconnect = "default"
    /\ ~gui.reconnector.running /\ gui.reconnector.threads = 0

\* C30: when synchronize has returned from a lost connection, the
\* auto-reconnect manager is running; no more than one reconnect loop runs
\* at a time; and it does not run once the window is closed.
C30_AutoReconnect ==
    /\ (Returns("synchronize") /\ sync.outcome = "lost" /\ gui.window = "open"
          /\ gui.after = "ran") =>
           gui.reconnector.running /\ gui.reconnector.threads = 1
    /\ gui.reconnector.threads <= 1
    /\ gui.window = "closed" => ~gui.reconnector.running

\* ------------------------------------------------------------------------
\* The sending of one file, read by read (server.py 64-70, utils.py 131-137)
\* ------------------------------------------------------------------------

\* The file the handler is sending: the first of those still to send.
Sending == <<workshop_root, Head(hqueue).rel_folder>> \o Head(hqueue).name

StreamFrame ==
    UNCHANGED <<sock, index, folder_class, folder_override, lfs, hfs, plan, ret, sync, clean,
                auxvars>>

\* A stat() or open() on a file that is gone raises: the handler ends and
\* its socket is closed, with what it has sent so far.
StreamDies ==
    /\ hpc' = "dead" /\ hqueue' = <<>>
    /\ conn' = [conn EXCEPT !.up = FALSE]

\* A request for the files of the index arrives on a connection that has
\* carried nothing yet.
StreamRequest(files) ==
    /\ hpc = "recv" /\ conn.up /\ conn.c2s = <<>> /\ conn.s2c = <<>> /\ files # <<>>
    /\ conn' = [conn EXCEPT !.c2s = <<[action |-> "REQUEST_FILES", files |-> files]>>]
    /\ UNCHANGED <<hpc, hqueue>>
    /\ StreamFrame

\* send_json(cli, {"action": "FILE", ..., "size": path.stat().st_size}) (69)
StreamHeader ==
    /\ hpc = "send" /\ hqueue # <<>>
    /\ IF ~is_file(hfs, Sending) THEN StreamDies
       ELSE /\ conn' = [conn EXCEPT !.s2c = Append(@,
                           JsonFrame([action |-> "FILE", rel_folder |-> Head(hqueue).rel_folder,
                                      name |-> Head(hqueue).name,
                                      size |-> st_size(hfs, Sending)]))]
            /\ hpc' = "send_file"
            /\ UNCHANGED hqueue
    /\ StreamFrame

\* send_file: size = path.stat().st_size; sock.sendall(struct.pack("!Q", size))
\* (132-133)
StreamPrefix ==
    /\ hpc = "send_file"
    /\ IF ~is_file(hfs, Sending) THEN StreamDies
       ELSE /\ conn' = [conn EXCEPT !.s2c = Append(@, FileFrame(st_size(hfs, Sending), <<>>))]
            /\ hpc' = "chunks"
            /\ UNCHANGED hqueue
    /\ StreamFrame

\* send_file: path.open("rb") and the chunks up to the end of the file
\* (134-136), then the next file of the request.
StreamChunks ==
    /\ hpc = "chunks"
    /\ IF ~is_file(hfs, Sending) THEN StreamDies
       ELSE /\ conn' = [conn EXCEPT !.s2c[Len(conn.s2c)].data = hfs[Sending].data]
            /\ hpc' = "send"
            /\ hqueue' = Tail(hqueue)
    /\ StreamFrame

\* The files of the host change while it serves: the first grows or shrinks,
\* the second is removed.
StreamFiles == {<<workshop_root, "1", "a.crp">>, <<workshop_root, "2", "c.txt">>}

NextStream ==
    \/ \E h \in {ServedTree} : sock = "none" /\ ConnectOk(h)
    \/ \E files \in RequestMaps(index) : StreamRequest(files)
    \/ HostRecv
    \/ StreamHeader
    \/ StreamPrefix
    \/ StreamChunks
    \/ HostSendDone
    \/ \E p \in StreamFiles, c \in {<<1>>, <<1, 2>>, <<2, 1, 2>>} : sock = "open" /\ HostWrite(p, c)
    \/ sock = "open" /\ HostRemove(<<workshop_root, "2", "c.txt">>)

SpecStream == InitClient /\ [][NextStream]_vars

\* The positions of the FILE headers on the stream whose file has been sent
\* to its end.
FilesStreamed ==
    {i \in 1..(Len(conn.s2c) - 1) :
        /\ conn.s2c[i].k = "json" /\ conn.s2c[i].msg.action = "FILE"
        /\ conn.s2c[i + 1].k = "file"
        /\ (i + 1 = Len(conn.s2c) => hpc # "chunks")
        /\ conn.up}

\* C31: for every file the host has streamed, the size of the FILE header,
\* the length written before the bytes and the number of bytes that follow
\* are the same, so that the next message starts right behind the bytes.
C31_SizesAgree ==
    \A i \in FilesStreamed :
        /\ conn.s2c[i].msg.size = conn.s2c[i + 1].size
        /\ conn.s2c[i + 1].size = Len(conn.s2c[i + 1].data)

\* The same host with files that change only while none of them is being
\* sent: after the manifest was built, before a FILE header or behind the
\* last byte of a file. There the three sizes agree.
NextStreamBetween ==
    \/ \E h \in {ServedTree} : sock = "none" /\ ConnectOk(h)
    \/ \E files \in RequestMaps(index) : StreamRequest(files)
    \/ HostRecv
    \/ StreamHeader
    \/ StreamPrefix
    \/ StreamChunks
    \/ HostSendDone
    \/ \E p \in StreamFiles, c \in {<<1>>, <<1, 2>>, <<2, 1, 2>>} :
          sock = "open" /\ hpc \in {"recv", "send"} /\ HostWrite(p, c)

SpecStreamBetween == InitClient /\ [][NextStreamBetween]_vars

\* ------------------------------------------------------------------------
\* The statistics of synchronize (client.py 250-314)
\* ------------------------------------------------------------------------

\* A call of synchronize on a connected client has returned its statistics.
StatsReturned == Returns("synchronize") /\ sync.outcome # "notconnected"

\* C32: in the statistics a call on a connected client returns,
\* selected_total = new_count + update_count + same_count, to_transfer =
\* new_count + update_count, assets_files + mods_files = transferred_files,
\* and transferred_files <= to_transfer.
C32_StatisticsInvariant ==
    StatsReturned =>
        LET st == ret.value
        IN  /\ st.selected_total = st.new_count + st.update_count + st.same_count
            /\ st.to_transfer = st.new_count + st.update_count
            /\ st.assets_files + st.mods_files = st.transferred_files
            /\ st.transferred_files <= st.to_transfer
            /\ st.transferred_files = Len(sync.got)
            /\ st.selected_total = Len(sync.keys)

\* A call that selected a file to update and a new one lost its connection
\* after the first of the two.
C32_Witness ==
    /\ StatsReturned /\ sync.outcome = "lost"
    /\ ret.value.selected_total = 2 /\ ret.value.new_count = 1 /\ ret.value.update_count = 1
    /\ ret.value.transferred_files = 1

\* A call that found one of its two files the same got the other, then DONE.
StatsWithSame ==
    /\ StatsReturned /\ sync.outcome = "done"
    /\ ret.value.same_count = 1 /\ ret.value.to_transfer = 1 /\ ret.value.transferred_files = 1

\* ------------------------------------------------------------------------
\* The keys of a plan (client.py 130-151, 163-185)
\* ------------------------------------------------------------------------

\* The local files a plan is built on: each of them there or not, below the
\* directories it needs. Folder 1 may hold a.crp under both roots.
KeyFiles ==
    {<<assets_path, "1", "a.crp">>, <<mods_path, "1", "a.crp">>,
     <<assets_path, "1", "b.dll">>, <<mods_path, "2", "c.txt">>}

KeyTreeOf(F) ==
    [p \in LocalPaths |->
        IF Len(p) = 1 THEN DirNode
        ELSE IF p \in F THEN FileNode(<<1>>, 1)
        ELSE IF Len(p) = 2 /\ \E f \in F : SubSeq(f, 1, 2) = p THEN DirNode
        ELSE NoNode]

KeyTrees == {KeyTreeOf(F) : F \in SUBSET KeyFiles}

InitKeys ==
    /\ sock = "none"
    /\ index = <<>>
    /\ folder_class = NoOverride
    /\ folder_override = NoOverride
    /\ lfs \in KeyTrees
    /\ hfs = EmptyFs(HostPaths, workshop_root)
    /\ plan = <<>>
    /\ ret = Void
    /\ conn = [NewConn EXCEPT !.up = FALSE]
    /\ hpc = "none"
    /\ hqueue = <<>>
    /\ sync = NoSync
    /\ clean = FALSE
    /\ srv = NoServer
    /\ wire = NoWire
    /\ gui = NewApp
    /\ workers = NoWorkers

\* connect() to any host, then build_plan().
NextKeys ==
    \/ \E h \in PlanHostStates : sock = "none" /\ ConnectOk(h)
    \/ sock = "open" /\ BuildPlan

SpecKeys == InitKeys /\ [][NextKeys]_vars

\* C33: no two items of a returned plan have the same key.
C33_KeysDistinct ==
    PlanReturned =>
        \A i, j \in 1..Len(ret.value) : ret.value[i].key = ret.value[j].key => i = j

\* What holds: two items with one key are file-level DELETE items of one
\* folder ID and one relative path, one under each root.
OnlyDeleteFilesShareKeys ==
    PlanReturned =>
        \A i, j \in 1..Len(ret.value) :
            (ret.value[i].key = ret.value[j].key /\ i # j) =>
                /\ ret.value[i].action = "DELETE" /\ ret.value[j].action = "DELETE"
                /\ ret.value[i].level = "file" /\ ret.value[j].level = "file"
                /\ ret.value[i].target[1] # ret.value[j].target[1]

\* ------------------------------------------------------------------------
\* gui.py: App._sync (341-373) called again while a call of synchronize is
\* still running; client.py: synchronize (240-324) in two threads
\* ------------------------------------------------------------------------

\* Largest number of threads App._sync starts in one run.
MaxWorkers == 2

\* One thread of App._sync: its call of synchronize, the FILE message it
\* holds between recv_json and recv_file, and history: batch numbers its
\* REQUEST_FILES among those sent on the connection, done numbers the DONE
\* it read among those read, misread tells that its recv_json took the
\* bytes of a file for the length of a message.
NewWorker(sy) == [call |-> sy, pending |-> <<>>, batch |-> 0, done |-> 0, misread |-> FALSE]

\* The requests sent and the DONE messages read so far, by all threads.
RequestsSent == Cardinality({w \in 1..Len(workers) : workers[w].batch > 0})
DonesRead == Cardinality({w \in 1..Len(workers) : workers[w].done > 0})

\* The host answers one request after the other, each with its files and
\* then DONE, and the threads read the one stream in its order: what is read
\* after n DONE messages is part of the answer to request n + 1.
BatchAtHead == DonesRead + 1

\* The except block of synchronize (318-321) in thread w, then the return
\* into run(): close() takes the socket from every thread of the client.
WorkerLost(w, wk, fs) ==
    /\ sock' = "none"
    /\ conn' = Closed
    /\ workers' = [workers EXCEPT ![w] =
                      [wk EXCEPT !.call = [on_disconnect(wk.call) EXCEPT
                                              !.pc = "idle", !.outcome = "lost"]]]
    /\ ret' = Returned("synchronize", FALSE, wk.call.stats)
    /\ lfs' = fs

WorkerFrame ==
    UNCHANGED <<index, folder_class, folder_override, hfs, plan, hpc, hqueue, sync, clean, srv,
                wire, gui>>

\* App._sync (341-373): the selection is not empty, and a thread is started
\* whatever the threads started before are doing. The thread runs
\* synchronize up to its first wait for the host (client.py 240-292).
WorkerStart(sel) ==
    /\ gui.window = "open"
    /\ sel # {}
    /\ Len(workers) < MaxWorkers
    /\ WorkerFrame
    /\ IF sock = "none"
       THEN /\ ret' = Returned("synchronize", FALSE, NotConnectedStats)
            /\ workers' = Append(workers, NewWorker([NoSync EXCEPT !.outcome = "notconnected"]))
            /\ UNCHANGED <<sock, conn, lfs>>
       ELSE LET d == sync_decide(lfs, index, folder_override, folder_class, sel)
                sy == [NoSync EXCEPT
                         !.keys = d.keys, !.dest_by_key = d.dest_by_key, !.stats = d.stats,
                         !.wanted = {KeyOf(d.request_files[i]) : i \in 1..Len(d.request_files)}]
                msg == [action |-> "REQUEST_FILES", files |-> d.request_files]
                w == Len(workers) + 1
            IN  IF d.raised
                THEN /\ ret' = Returned("synchronize", TRUE, <<>>)
                     /\ workers' = Append(workers, NewWorker([sy EXCEPT !.outcome = "raised",
                                                    !.stats = stats0(Len(d.keys))]))
                     /\ UNCHANGED <<sock, conn, lfs>>
                ELSE IF nothing_to_do(d.request_files)
                THEN /\ ret' = Returned("synchronize", FALSE, d.stats)
                     /\ workers' = Append(workers, NewWorker([sy EXCEPT !.outcome = "nothing"]))
                     /\ UNCHANGED <<sock, conn, lfs>>
                ELSE IF conn.up
                THEN /\ conn' = [conn EXCEPT !.c2s = Append(@, msg)]
                     /\ workers' = Append(workers,
                           [NewWorker([sy EXCEPT !.pc = "recv", !.outcome = "running",
                                                 !.sent = <<msg>>])
                            EXCEPT !.batch = RequestsSent + 1])
                     /\ ret' = Returned("sync_send", FALSE, <<>>)
                     /\ UNCHANGED <<sock, lfs>>
                ELSE /\ sock' = "none"
                     /\ conn' = Closed
                     /\ workers' = Append(workers,
                           NewWorker([on_disconnect(sy) EXCEPT !.outcome = "lost"]))
                     /\ ret' = Returned("synchronize", FALSE, sy.stats)
                     /\ UNCHANGED lfs

\* msg = recv_json(sock) in thread w and what the loop does with msg before
\* recv_file (294-304). recv_json reads four bytes as a length, whatever is
\* next on the stream: of a file in flight they are the upper half of its
\* 8-byte size, which is 0, and json.loads of no bytes raises.
WorkerRecvJson(w) ==
    /\ w \in 1..Len(workers)
    /\ workers[w].call.pc = "recv"
    /\ WorkerFrame
    /\ LET wk == workers[w]
       IN  IF conn.s2c = <<>>
           THEN \* the stream ended, or another thread closed the socket
                /\ ~conn.up
                /\ WorkerLost(w, wk, lfs)
           ELSE LET f == Head(conn.s2c)
                    rest == Tail(conn.s2c)
                    msg == f.msg
                IN  IF f.k = "file"
                    THEN WorkerLost(w, [wk EXCEPT !.misread = TRUE], lfs)
                    ELSE IF ~f.whole
                    THEN WorkerLost(w, wk, lfs)
                    ELSE IF msg.action = "FILE"
                    THEN IF ~({"rel_folder", "name", "size"} \subseteq DOMAIN msg)
                            \/ ~index_has(index, <<msg.rel_folder>> \o msg.name)
                         THEN WorkerLost(w, wk, lfs)
                         ELSE LET key == <<msg.rel_folder>> \o msg.name
                                  entry == header_entry(index, wk.call, key)
                                  dest_base == dest_base_of(wk.call, folder_override,
                                                            folder_class, key)
                              IN  /\ workers' = [workers EXCEPT ![w] =
                                        [wk EXCEPT !.call.pc = "recv_file",
                                                   !.pending = <<[key |-> key, size |-> msg.size,
                                                                  dest_base |-> dest_base,
                                                                  target |-> build_client_target(
                                                                               entry, dest_base),
                                                                  batch |-> BatchAtHead]>>]]
                                  /\ conn' = [conn EXCEPT !.s2c = rest]
                                  /\ ret' = Returned("sync_recv", FALSE, <<>>)
                                  /\ UNCHANGED <<sock, lfs>>
                    ELSE IF msg.action = "DONE"
                    THEN /\ workers' = [workers EXCEPT ![w] =
                               [wk EXCEPT !.call.pc = "idle", !.call.outcome = "done",
                                          !.done = BatchAtHead]]
                         /\ conn' = [conn EXCEPT !.s2c = rest]
                         /\ ret' = Returned("synchronize", FALSE, wk.call.stats)
                         /\ UNCHANGED <<sock, lfs>>
                    ELSE /\ conn' = [conn EXCEPT !.s2c = rest]
                         /\ ret' = Returned("sync_recv", FALSE, <<>>)
                         /\ UNCHANGED <<sock, lfs, workers>>

\* recv_file(sock, target) in thread w and the counters (305-315).
WorkerRecvFile(w) ==
    /\ w \in 1..Len(workers)
    /\ workers[w].call.pc = "recv_file"
    /\ WorkerFrame
    /\ LET wk == workers[w]
           pend == wk.pending[1]
       IN  IF conn.s2c = <<>>
           THEN /\ ~conn.up
                /\ WorkerLost(w, wk, lfs)
           ELSE LET f == Head(conn.s2c)
                    r == recv_file(lfs, f, pend.target)
                IN  /\ f.k = "file"
                    /\ IF r.err
                       THEN WorkerLost(w, wk, r.fs)
                       ELSE /\ lfs' = r.fs
                            /\ workers' = [workers EXCEPT ![w] =
                                  [wk EXCEPT
                                     !.pending = <<>>,
                                     !.call = progress_cb([wk.call EXCEPT
                                        !.pc = "recv",
                                        !.stats.assets_files =
                                            IF pend.dest_base = "assets" THEN @ + 1 ELSE @,
                                        !.stats.mods_files =
                                            IF pend.dest_base = "assets" THEN @ ELSE @ + 1,
                                        !.stats.bytes = @ + pend.size,
                                        !.stats.transferred_files = @ + 1,
                                        !.got = Append(@, [key |-> pend.key,
                                                           target |-> pend.target,
                                                           announced |-> pend.size,
                                                           size |-> f.size,
                                                           data |-> f.data,
                                                           batch |-> pend.batch,
                                                           returned |-> r.value])])]]
                            /\ conn' = [conn EXCEPT !.s2c = Tail(conn.s2c)]
                            /\ ret' = Returned("sync_recv", FALSE, <<>>)
                            /\ UNCHANGED sock

\* The window after connect: the button of App._sync pressed up to
\* MaxWorkers times, each thread running its call of synchronize, against
\* the host of server.py.
NextWorkers ==
    \/ sock = "none" /\ workers = NoWorkers /\ ConnectOk(ServedTree)
    \/ \E sel \in Selections : WorkerStart(sel)
    \/ \E w \in 1..MaxWorkers : WorkerRecvJson(w)
    \/ \E w \in 1..MaxWorkers : WorkerRecvFile(w)
    \/ HostRecv
    \/ HostSendFile
    \/ HostSendDone

SpecWorkers == InitClient /\ [][NextWorkers]_vars

\* The threads whose call of synchronize sent a request.
Requesters == {w \in 1..Len(workers) : workers[w].batch > 0}

\* C34: when two calls of synchronize run at the same time on one client,
\* every FILE and DONE message of the host is read by the call whose
\* REQUEST_FILES it answers, a call returns after a DONE only when that DONE
\* is its own, and no call reads the bytes of a file as the length of a
\* message.
C34_AnswersReachTheirCall ==
    \A w \in Requesters :
        LET wk == workers[w]
        IN  /\ \A i \in 1..Len(wk.call.got) : wk.call.got[i].batch = wk.batch
            /\ wk.pending # <<>> => wk.pending[1].batch = wk.batch
            /\ wk.done > 0 => wk.done = wk.batch
            /\ ~wk.misread

\* The three parts of C34 one by one.
FilesReachTheirCall ==
    \A w \in Requesters :
        /\ \A i \in 1..Len(workers[w].call.got) : workers[w].call.got[i].batch = workers[w].batch
        /\ workers[w].pending # <<>> => workers[w].pending[1].batch = workers[w].batch

ReturnsAfterOwnDone == \A w \in Requesters : workers[w].done > 0 => workers[w].done = workers[w].batch

NoFileBytesAsHeader == \A w \in Requesters : ~workers[w].misread

\* One call at a time: no thread is started while another is inside
\* synchronize.
NextWorkersInTurn ==
    \/ sock = "none" /\ workers = NoWorkers /\ ConnectOk(ServedTree)
    \/ \E sel \in Selections :
          /\ \A w \in 1..Len(workers) : workers[w].call.pc = "idle"
          /\ WorkerStart(sel)
    \/ \E w \in 1..MaxWorkers : WorkerRecvJson(w)
    \/ \E w \in 1..MaxWorkers : WorkerRecvFile(w)
    \/ HostRecv
    \/ HostSendFile
    \/ HostSendDone

SpecWorkersInTurn == InitClient /\ [][NextWorkersInTurn]_vars

\* ------------------------------------------------------------------------
\* client.py: set_folder_override (99-102) while synchronize (240-324) waits
\* for its files
\* ------------------------------------------------------------------------

\* A host whose folder 1 holds an asset and a mod.
MixedTree ==
    HostFsOf([k \in HostKeys |->
                 IF k = <<workshop_root, "1", "a.crp">> THEN FileNode(<<1, 2>>, 2)
                 ELSE IF k = <<workshop_root, "1", "b.dll">> THEN FileNode(<<1>>, 2)
                 ELSE NoNode])

\* A session in which the destination of folder 1 is set at any time while
\* connected, also between two files of a transfer; before it, a.crp may
\* lie under either root.
NextRetarget ==
    \/ \E p \in {<<assets_path, "1">>, <<mods_path, "1">>} : Setup /\ LocalMkdir(p)
    \/ \E p \in {<<assets_path, "1", "a.crp">>, <<mods_path, "1", "a.crp">>} :
          Setup /\ LocalWrite(p, <<1>>)
    \/ Setup /\ ConnectOk(MixedTree)
    \/ \E dest \in {"assets", "mods"} : sock = "open" /\ SetFolderOverride("1", dest)
    \/ \E sel \in Selections : sync.pc = "idle" /\ sync.calls < MaxCalls /\ SyncStart(sel)
    \/ SyncRecv
    \/ HostRecv
    \/ HostSendFile
    \/ HostSendDone

SpecRetarget == InitClient /\ [][NextRetarget]_vars

\* The root a destination base stands for.
BaseRoot(dest_base) == IF dest_base = "assets" THEN assets_path ELSE mods_path

\* C35: every file a call of synchronize has received is written under the
\* root of the destination base the call resolved for its key before the
\* request, the base under which it found the file NEW or UPDATE and asked
\* for it, whatever set_folder_override has made of the folder's target
\* since; the files of one folder received in one call are under one root,
\* and assets_files and mods_files count the files by that root.
C35_ResolvedBaseKept ==
    /\ \A i \in 1..Len(sync.got) :
          LET g == sync.got[i]
          IN  /\ g.key \in DOMAIN sync.dest_by_key
              /\ g.key \in sync.wanted
              /\ g.target = <<BaseRoot(sync.dest_by_key[g.key])>> \o g.key
              /\ is_file(lfs, g.target)
    /\ \A i, j \in 1..Len(sync.got) :
          sync.got[i].key[1] = sync.got[j].key[1] => sync.got[i].target[1] = sync.got[j].target[1]
    /\ sync.stats.assets_files =
          Cardinality({i \in 1..Len(sync.got) : sync.got[i].target[1] = assets_path})
    /\ sync.stats.mods_files =
          Cardinality({i \in 1..Len(sync.got) : sync.got[i].target[1] = mods_path})

\* A file has just been received whose folder has another target now than
\* the call resolved, after a first file of that folder.
C35_Witness ==
    /\ ret.op = "sync_recv" /\ Len(sync.got) = 2
    /\ sync.got[1].key[1] = sync.got[2].key[1]
    /\ get_folder_target(folder_override, folder_class, sync.got[2].key[1])
          # sync.dest_by_key[sync.got[2].key]

\* ------------------------------------------------------------------------
\* After a transfer that was cut: recv_file (utils.py 139-151),
\* _classify_file_action (client.py 194-200), synchronize (293-321)
\* ------------------------------------------------------------------------

\* A session on a host whose files stay as they are: the connection may end
\* at any point of a transfer, the client connects again, the plan is built
\* and synchronize is called again.
NextRecover ==
    \/ \E h \in LifeHostStates : Setup /\ ConnectOk(h)
    \/ sock = "none" /\ sync.outcome \in {"lost", "notconnected"} /\ ConnectOk(hfs)
    \/ sync.pc = "idle" /\ sync.outcome # "none" /\ BuildPlan
    \/ \E sel \in Selections : sync.pc = "idle" /\ sync.calls < MaxCalls /\ SyncStart(sel)
    \/ SyncRecv
    \/ HostRecv
    \/ HostSendFile
    \/ HostSendDone
    \/ \E how \in {"eof", "cut_hdr", "cut_data"} : sync.pc = "recv" /\ Drop(how)

SpecRecover == InitClient /\ [][NextRecover]_vars

\* The target the client resolves for a key of the index.
TargetOf(k) ==
    build_client_target(index_get(index, k),
                        get_folder_target(folder_override, folder_class, k[1]))

\* C36: a file that a connection closed in the middle of its bytes left
\* truncated is UPDATE, never SAME, in the plan built next, and the next call
\* of synchronize on a new connection that selects it finds it UPDATE and
\* requests it again; when that call has ended with DONE the hash of the file
\* is the hash of the manifest.
C36_TruncatedFileRecovered ==
    /\ (PlanReturned /\ sync.outcome = "lost") =>
          \A k \in TornBy(sync) :
             /\ \E i \in 1..Len(ret.value) : ret.value[i].key = k
             /\ \A i \in 1..Len(ret.value) :
                   ret.value[i].key = k =>
                      /\ ret.value[i].action = "UPDATE"
                      /\ ret.value[i].target = TargetOf(k)
    /\ sync.outcome \in {"running", "done", "lost"} =>
          /\ sync.torn \cap Range(sync.keys) \subseteq sync.wanted
          /\ sync.stats.update_count >= Cardinality(sync.torn \cap Range(sync.keys))
    /\ sync.outcome \notin {"running", "done", "lost", "notconnected"} =>
          sync.torn \cap Range(sync.keys) = {}
    /\ sync.outcome = "done" =>
          \A k \in sync.torn \cap Range(sync.keys) :
             /\ is_file(lfs, TargetOf(k))
             /\ sha256_of_file(lfs, TargetOf(k)) = index_get(index, k).sha256

\* The plan built after a cut transfer, before the next call.
C36_PlanWitness == PlanReturned /\ sync.outcome = "lost" /\ TornBy(sync) # {} /\ sock = "open"

\* The call after the one that was cut has ended with DONE and has received
\* the file again.
C36_Witness ==
    /\ sync.outcome = "done" /\ sync.torn # {}
    /\ \E i \in 1..Len(sync.got) : sync.got[i].key \in sync.torn

====
